---------------------------- MODULE Spec2Model ----------------------------
(***************************************************************************)
(* ZeroTrace: the overwrite algorithms (core/nist_algorithms.py), the wipe *)
(* orchestrator (core/wiping_engine.py), the certificate manager           *)
(* (core/certificate.py), the validator (utils/validation.py) and the wipe *)
(* command line (cli/wipe.py), as one state machine.                       *)
(*                                                                         *)
(* A file system entry is a record: kind is what the path itself is,       *)
(* target is what a symbolic link resolves to, size is the size stat()     *)
(* reports (stat follows links), r / w are the access bits os.access       *)
(* reports (it follows links too) and pw the write bit of the parent       *)
(* directory.  A progress value p percent is kept as the exact fraction    *)
(* <<num, den>> with p = 100 * num / den.                                  *)
(***************************************************************************)
EXTENDS Integers, Sequences, FiniteSets, TLC

(***************************************************************************)
(* Bounds of the model.                                                    *)
(***************************************************************************)
MaxFiles == 2
MaxSize == 3
MaxBlock == 2
MaxPasses == 3

(***************************************************************************)
(* Program constants.                                                      *)
(***************************************************************************)
DEFAULT_PASSES == 7

PathSeq == <<"/home/a", "/bin/sh", "/home/B", "/Etc/passwd">>
Paths == {PathSeq[i] : i \in 1..MaxFiles}

\* the directory tree the paths live in
Folders == {"/", "/home", "/bin", "/Etc"}
ParentOf == ("/home/a" :> "/home") @@ ("/bin/sh" :> "/bin") @@ ("/home/B" :> "/home")
            @@ ("/Etc/passwd" :> "/Etc")
            @@ ("/home" :> "/") @@ ("/bin" :> "/") @@ ("/Etc" :> "/") @@ ("/" :> "/")

VARIABLES
    fs,                \* the file system: path -> entry
    BLOCK_SIZE,        \* NISTAlgorithms.BLOCK_SIZE
    npc,               \* position inside clear_method / purge_method
    nargs,             \* their arguments: file_path, passes, progress_callback given
    nloc,              \* their locals: file_size, bytes_written, pass_num
    nret,              \* their return value
    io,                \* the stat / write / sync / unlink calls of the running method,
                       \* and the write or sync that raised
    rngCalls,          \* number of secrets.token_bytes calls of the running method
    verifyLog,         \* outcome of _verify_overwrite in the running purge
    progress,          \* the values handed to the caller's progress callback
    dirs,              \* the directories of Folders that exist
    cancel_requested,  \* WipingEngine._cancel_requested
    epc,               \* position inside the running WipingEngine call
    eop,               \* the running call and its arguments
    files_to_wipe,     \* the list the running folder / selection wipe goes through
    idx,               \* its loop index (0-based, as enumerate gives it)
    result,            \* the result of the running folder / selection wipe
    file_result,       \* the result of the last wipe_file
    stopAt,            \* loop index at which the first emergency_stop arrived, or -1
    touched,           \* every write and unlink so far, with what the path was then
    private_key,       \* CertificateManager.private_key
    certificate,       \* CertificateManager.certificate
    cert_file,         \* the certificate file
    cpc,               \* position of the certificate scenario
    gen_ret,           \* what generate_wipe_certificate gave its caller
    verify_ret,        \* what verify_certificate returned
    signed_payload,    \* the bytes handed to private_key.sign
    verified_payload,  \* the bytes handed to public_key.verify
    tampered,          \* the certificate file was changed after it was written
    vcall,             \* the Validator call made
    vout,              \* its result
    cli                \* the wipe command being run

nistVars == <<fs, BLOCK_SIZE, npc, nargs, nloc, nret, io, rngCalls, verifyLog, touched>>
engineVars == <<dirs, cancel_requested, epc, eop, files_to_wipe, idx, result,
                file_result, stopAt>>
certVars == <<private_key, certificate, cert_file, cpc, gen_ret, verify_ret,
              signed_payload, verified_payload, tampered>>
valVars == <<vcall, vout>>
vars == <<fs, BLOCK_SIZE, npc, nargs, nloc, nret, io, rngCalls, verifyLog, progress,
          dirs, cancel_requested, epc, eop, files_to_wipe, idx, result, file_result,
          stopAt, touched, private_key, certificate, cert_file, cpc, gen_ret,
          verify_ret, signed_payload, verified_payload, tampered, vcall, vout, cli>>

\* what a step of an algorithm, and a step of the engine, leave alone
nistFrame == <<engineVars, certVars, valVars, cli>>
engineFrame == <<certVars, valVars, cli>>

(***************************************************************************)
(* pathlib / os views of an entry.                                         *)
(***************************************************************************)
Missing == [kind |-> "missing", target |-> "none", size |-> 0,
            r |-> FALSE, w |-> FALSE, pw |-> FALSE]

Resolved(e) == IF e.kind = "symlink" THEN e.target ELSE e.kind

Exists(e) == Resolved(e) \in {"file", "dir", "other"}

IsFile(e) == Resolved(e) = "file"

IsDir(e) == Resolved(e) = "dir"

IsSymlink(e) == e.kind = "symlink"

\* open(file_path, 'r+b') succeeds only on a regular file that is readable and writable
CanOpenRW(e) == IsFile(e) /\ e.r /\ e.w

\* Path.unlink() removes the directory entry (the link itself, for a link)
CanUnlink(e) == e.kind \in {"file", "symlink", "other"} /\ e.pw

Min(a, b) == IF a < b THEN a ELSE b

(***************************************************************************)
(* The platform handler's deny-list, on the strings of the model.          *)
(***************************************************************************)
\* str.lower()
Lower(p) ==
    CASE p = "/home/B" -> "/home/b"
      [] p = "/Etc/passwd" -> "/etc/passwd"
      [] OTHER -> p

\* the strings that start with one of system_paths: '/bin/', ..., '/etc/passwd', ...
is_system_file(p) == p \in {"/bin/sh", "/etc/passwd"}

\* a write or an unlink, with what the path was when it happened
Touch(p, op) ==
    [path |-> p, op |-> op, symlink |-> IsSymlink(fs[p]), system |-> is_system_file(p)]

(***************************************************************************)
(* Events of the io log.                                                   *)
(***************************************************************************)
WriteEv(p, pass, off, len, byte, src, call) ==
    [op |-> "write", path |-> p, pass |-> pass, off |-> off, len |-> len,
     byte |-> byte, src |-> src, call |-> call]

SyncEv(p, pass) ==
    [op |-> "sync", path |-> p, pass |-> pass, off |-> 0, len |-> 0,
     byte |-> 0, src |-> "none", call |-> 0]

\* stat(): len holds the st_size it reported
StatEv(p, size) ==
    [op |-> "stat", path |-> p, pass |-> 0, off |-> 0, len |-> size,
     byte |-> 0, src |-> "none", call |-> 0]

\* a write, or a flush / fsync, that raised
FailEv(p, pass, op) ==
    [op |-> "fail", path |-> p, pass |-> pass, off |-> 0, len |-> 0,
     byte |-> 0, src |-> op, call |-> 0]

UnlinkEv(p) ==
    [op |-> "unlink", path |-> p, pass |-> 0, off |-> 0, len |-> 0,
     byte |-> 0, src |-> "none", call |-> 0]

NoArgs == [method |-> "none", file_path |-> "none", passes |-> 0, cb |-> FALSE]
NoLoc == [file_size |-> 0, bytes_written |-> 0, pass_num |-> 0]

\* leaving a method: its value is in nret until the caller takes it
NistReturn(v) ==
    /\ npc' = "ret"
    /\ nret' = v

\* entering a method: a fresh frame and fresh logs; the size of an existing
\* file is read once, with stat()
NistCall(method, p, passes, cb) ==
    /\ nargs' = [method |-> method, file_path |-> p, passes |-> passes, cb |-> cb]
    /\ io' = IF Exists(fs[p]) THEN <<StatEv(p, fs[p].size)>> ELSE <<>>
    /\ rngCalls' = 0
    /\ verifyLog' = "none"

(***************************************************************************)
(* clear_method                                                            *)
(***************************************************************************)
\* lines 42-55: existence check, stat, open
clear_method_enter(p, cb) ==
    /\ NistCall("clear", p, 1, cb)
    /\ IF ~Exists(fs[p])
       THEN /\ NistReturn(FALSE)
            /\ nloc' = NoLoc
       ELSE \E ok \in BOOLEAN :
              IF ok /\ CanOpenRW(fs[p])
              THEN /\ npc' = "clear_write"
                   /\ nloc' = [file_size |-> fs[p].size, bytes_written |-> 0, pass_num |-> 1]
                   /\ nret' = nret
              ELSE /\ NistReturn(FALSE)
                   /\ nloc' = [file_size |-> fs[p].size, bytes_written |-> 0, pass_num |-> 1]
    /\ UNCHANGED <<fs, BLOCK_SIZE, touched>>

\* a whole block at every iteration, the last one included
ClearChunkWholeBlock == BLOCK_SIZE

\* line 57: chunk_size
ClearChunk == Min(BLOCK_SIZE, nloc.file_size - nloc.bytes_written)

\* lines 56-64: one iteration of the write loop
clear_method_write ==
    /\ npc = "clear_write"
    /\ nloc.bytes_written < nloc.file_size
    /\ \E ok \in BOOLEAN :
         IF ok
         THEN /\ io' = Append(io, WriteEv(nargs.file_path, 1, nloc.bytes_written,
                                          ClearChunk, 0, "pattern", 0))
              /\ nloc' = [nloc EXCEPT !.bytes_written = @ + ClearChunk]
              /\ progress' = IF nargs.cb
                             THEN Append(progress,
                                         <<nloc.bytes_written + ClearChunk, nloc.file_size>>)
                             ELSE progress
              /\ touched' = touched \cup {Touch(nargs.file_path, "write")}
              /\ UNCHANGED <<npc, nret>>
         ELSE /\ NistReturn(FALSE)
              /\ io' = Append(io, FailEv(nargs.file_path, 1, "write"))
              /\ UNCHANGED <<nloc, progress, touched>>
    /\ UNCHANGED <<fs, BLOCK_SIZE, nargs, rngCalls, verifyLog>>
    /\ UNCHANGED nistFrame

\* a failed flush / fsync is ignored
clear_method_sync_ignoring_failure ==
    /\ npc = "clear_write"
    /\ nloc.bytes_written >= nloc.file_size
    /\ \E ok \in BOOLEAN :
         io' = Append(io, IF ok THEN SyncEv(nargs.file_path, 1)
                          ELSE FailEv(nargs.file_path, 1, "sync"))
    /\ npc' = "clear_unlink"
    /\ UNCHANGED <<fs, BLOCK_SIZE, nargs, nloc, nret, rngCalls, verifyLog, progress,
                   touched>>
    /\ UNCHANGED nistFrame

\* lines 66-68: flush and fsync once the loop is over
clear_method_sync ==
    /\ npc = "clear_write"
    /\ nloc.bytes_written >= nloc.file_size
    /\ \E ok \in BOOLEAN :
         IF ok
         THEN /\ io' = Append(io, SyncEv(nargs.file_path, 1))
              /\ npc' = "clear_unlink"
              /\ nret' = nret
         ELSE /\ NistReturn(FALSE)
              /\ io' = Append(io, FailEv(nargs.file_path, 1, "sync"))
    /\ UNCHANGED <<fs, BLOCK_SIZE, nargs, nloc, rngCalls, verifyLog, progress, touched>>
    /\ UNCHANGED nistFrame

\* lines 70-74: unlink and return True
clear_method_unlink ==
    /\ npc = "clear_unlink"
    /\ \E ok \in BOOLEAN :
         IF ok /\ CanUnlink(fs[nargs.file_path])
         THEN /\ fs' = [fs EXCEPT ![nargs.file_path] = Missing]
              /\ io' = Append(io, UnlinkEv(nargs.file_path))
              /\ touched' = touched \cup {Touch(nargs.file_path, "unlink")}
              /\ NistReturn(TRUE)
         ELSE /\ NistReturn(FALSE)
              /\ UNCHANGED <<fs, io, touched>>
    /\ UNCHANGED <<BLOCK_SIZE, nargs, nloc, rngCalls, verifyLog, progress>>
    /\ UNCHANGED nistFrame

(***************************************************************************)
(* purge_method and _overwrite_pass                                        *)
(***************************************************************************)
\* 0xFF again in the passes after the second
PassPatternFixed(pass_num) ==
    IF pass_num = 1 THEN <<0>> ELSE <<255>>

\* lines 118-123: the pattern of a pass; <<>> stands for None (random data)
PassPattern(pass_num) ==
    IF pass_num = 1 THEN <<0>>
    ELSE IF pass_num = 2 THEN <<255>>
    ELSE <<>>

\* lines 103-111: existence check and stat; file_size is read once, here
purge_method_enter(p, passes, cb) ==
    /\ NistCall("purge", p, passes, cb)
    /\ IF ~Exists(fs[p])
       THEN /\ NistReturn(FALSE)
            /\ nloc' = NoLoc
       ELSE /\ npc' = "purge_loop"
            /\ nloc' = [file_size |-> fs[p].size, bytes_written |-> 0, pass_num |-> 1]
            /\ nret' = nret
    /\ UNCHANGED <<fs, BLOCK_SIZE, touched>>

\* line 114 and lines 161-164: the for loop's test, and the open of _overwrite_pass
purge_method_loop ==
    /\ npc = "purge_loop"
    /\ IF nloc.pass_num <= nargs.passes
       THEN \E ok \in BOOLEAN :
              IF ok /\ CanOpenRW(fs[nargs.file_path])
              THEN /\ npc' = "pass_write"
                   /\ nloc' = [nloc EXCEPT !.bytes_written = 0]
                   /\ nret' = nret
              ELSE /\ NistReturn(FALSE)
                   /\ nloc' = nloc
       ELSE /\ npc' = "purge_verify"
            /\ UNCHANGED <<nloc, nret>>
    /\ UNCHANGED <<fs, BLOCK_SIZE, nargs, io, rngCalls, verifyLog, progress, touched>>
    /\ UNCHANGED nistFrame

PassChunk == Min(BLOCK_SIZE, nloc.file_size - nloc.bytes_written)

\* lines 169-172: the data of one block: the pattern repeated, or a fresh
\* secrets.token_bytes call (numbered by rngCalls)
PassData(pattern, chunk) ==
    IF Len(pattern) > 0
    THEN WriteEv(nargs.file_path, nloc.pass_num, nloc.bytes_written, chunk,
                 pattern[1], "pattern", 0)
    ELSE WriteEv(nargs.file_path, nloc.pass_num, nloc.bytes_written, chunk,
                 -1, "random", rngCalls + 1)

\* the progress of the passes completed before this one, without the bytes of
\* the pass under way
PassProgressOfPassOnly(pass_num, total_passes, bytes_written, file_size) ==
    <<(pass_num - 1) * file_size, total_passes * file_size>>

\* lines 180-182: overall progress across the passes, as an exact fraction
PassProgress(pass_num, total_passes, bytes_written, file_size) ==
    <<(pass_num - 1) * file_size + bytes_written, total_passes * file_size>>

\* lines 165-183: one iteration of the write loop of _overwrite_pass
overwrite_pass_write ==
    /\ npc = "pass_write"
    /\ nloc.bytes_written < nloc.file_size
    /\ \E ok \in BOOLEAN :
         IF ok
         THEN LET ev == PassData(PassPattern(nloc.pass_num), PassChunk)
              IN  /\ io' = Append(io, ev)
                  /\ rngCalls' = IF ev.src = "random" THEN rngCalls + 1 ELSE rngCalls
                  /\ nloc' = [nloc EXCEPT !.bytes_written = @ + PassChunk]
                  /\ progress' = IF nargs.cb
                                 THEN Append(progress,
                                             PassProgress(nloc.pass_num, nargs.passes,
                                                          nloc.bytes_written + PassChunk,
                                                          nloc.file_size))
                                 ELSE progress
                  /\ touched' = touched \cup {Touch(nargs.file_path, "write")}
                  /\ UNCHANGED <<npc, nret>>
         ELSE /\ NistReturn(FALSE)
              /\ io' = Append(io, FailEv(nargs.file_path, nloc.pass_num, "write"))
              /\ UNCHANGED <<rngCalls, nloc, progress, touched>>
    /\ UNCHANGED <<fs, BLOCK_SIZE, nargs, verifyLog>>
    /\ UNCHANGED nistFrame

\* lines 185-189 and 126-127: flush, fsync, and back to the for loop
overwrite_pass_sync ==
    /\ npc = "pass_write"
    /\ nloc.bytes_written >= nloc.file_size
    /\ \E ok \in BOOLEAN :
         IF ok
         THEN /\ io' = Append(io, SyncEv(nargs.file_path, nloc.pass_num))
              /\ nloc' = [nloc EXCEPT !.pass_num = @ + 1]
              /\ npc' = "purge_loop"
              /\ nret' = nret
         ELSE /\ NistReturn(FALSE)
              /\ io' = Append(io, FailEv(nargs.file_path, nloc.pass_num, "sync"))
              /\ nloc' = nloc
    /\ UNCHANGED <<fs, BLOCK_SIZE, nargs, rngCalls, verifyLog, progress, touched>>
    /\ UNCHANGED nistFrame

\* lines 195-242: _verify_overwrite: True for an empty file, True when a sample
\* could be read, False on any error
VerifyOverwrite(e, readOk) ==
    IF ~Exists(e) THEN FALSE
    ELSE IF e.size = 0 THEN TRUE
    ELSE readOk /\ IsFile(e) /\ e.r

\* a failed verification makes purge_method return False
purge_method_verify_strict ==
    /\ npc = "purge_verify"
    /\ \E readOk \in BOOLEAN :
         IF VerifyOverwrite(fs[nargs.file_path], readOk)
         THEN /\ verifyLog' = "passed"
              /\ npc' = "purge_unlink"
              /\ nret' = nret
         ELSE /\ verifyLog' = "warning"
              /\ NistReturn(FALSE)
    /\ UNCHANGED <<fs, BLOCK_SIZE, nargs, nloc, io, rngCalls, progress, touched>>
    /\ UNCHANGED nistFrame

\* lines 129-131: the verification; its failure is only logged
purge_method_verify ==
    /\ npc = "purge_verify"
    /\ \E readOk \in BOOLEAN :
         verifyLog' = IF VerifyOverwrite(fs[nargs.file_path], readOk)
                      THEN "passed" ELSE "warning"
    /\ npc' = "purge_unlink"
    /\ UNCHANGED <<fs, BLOCK_SIZE, nargs, nloc, nret, io, rngCalls, progress, touched>>
    /\ UNCHANGED nistFrame

\* lines 133-137: unlink and return True
purge_method_unlink ==
    /\ npc = "purge_unlink"
    /\ \E ok \in BOOLEAN :
         IF ok /\ CanUnlink(fs[nargs.file_path])
         THEN /\ fs' = [fs EXCEPT ![nargs.file_path] = Missing]
              /\ io' = Append(io, UnlinkEv(nargs.file_path))
              /\ touched' = touched \cup {Touch(nargs.file_path, "unlink")}
              /\ NistReturn(TRUE)
         ELSE /\ NistReturn(FALSE)
              /\ UNCHANGED <<fs, io, touched>>
    /\ UNCHANGED <<BLOCK_SIZE, nargs, nloc, rngCalls, verifyLog, progress>>
    /\ UNCHANGED nistFrame

(***************************************************************************)
(* WipingEngine                                                            *)
(***************************************************************************)
NoOp == [kind |-> "none", method |-> "none", cb |-> FALSE, recursive |-> FALSE,
         folder |-> "none"]

NoFileResult == [file |-> "none", method |-> "none", success |-> FALSE,
                 error |-> "None", verified |-> "absent", ended |-> FALSE]

\* a result dictionary; keys holds the keys the dictionary has
NoResult == [keys |-> {}, total_files |-> 0, successful |-> 0, failed |-> 0,
             skipped |-> 0, files |-> <<>>, errors |-> <<>>, ended |-> FALSE]

\* dict.get(key, default) on a count of a result dictionary
GetCount(res, key, default) ==
    IF key \notin res.keys THEN default
    ELSE CASE key = "total_files" -> res.total_files
           [] key = "successful" -> res.successful
           [] key = "failed" -> res.failed
           [] key = "skipped" -> res.skipped

\* lines 116-127: the result wipe_folder starts from
FolderResult ==
    [NoResult EXCEPT !.keys = {"folder", "method", "recursive", "total_files",
                               "successful", "failed", "errors", "start_time",
                               "end_time", "duration"}]

\* lines 206-216: the result wipe_selection starts from
SelectionResult(file_list) ==
    [NoResult EXCEPT !.keys = {"method", "total_files", "successful", "failed",
                               "skipped", "files", "start_time", "end_time",
                               "duration"},
                     !.total_files = Len(file_list)]

\* verify_wipe asking whether the directory entry is there, without following a
\* link
verify_wipe_lexists(e) == e.kind = "missing"

\* lines 244-257 of nist_algorithms.py: verify_wipe
verify_wipe(e) == ~Exists(e)

\* lines 165-172: wipe_folder counts the file and records the error of a failed one
FolderRecord(res, fr) ==
    IF fr.success
    THEN [res EXCEPT !.successful = @ + 1]
    ELSE [res EXCEPT !.failed = @ + 1,
                     !.errors = Append(@, [file |-> fr.file, error |-> fr.error])]

\* lines 233-238: wipe_selection appends the file result and counts it
SelectionRecord(res, fr) ==
    IF fr.success
    THEN [res EXCEPT !.files = Append(@, fr), !.successful = @ + 1]
    ELSE [res EXCEPT !.files = Append(@, fr), !.failed = @ + 1]

\* what the caller of wipe_file does with the result it gets back
AfterWipeFile(kind, fr) ==
    /\ file_result' = fr
    /\ CASE kind = "file" ->
              /\ epc' = "done"
              /\ UNCHANGED <<result, idx>>
         [] kind = "selection" ->
              /\ result' = SelectionRecord(result, fr)
              /\ idx' = idx + 1
              /\ epc' = "sel_loop"
         [] kind = "folder" ->
              /\ result' = FolderRecord(result, fr)
              /\ idx' = idx + 1
              /\ epc' = "fold_loop"

\* wipe_file without the test of lines 56-59: stat (67) raises on a missing path
\* and the handler of lines 89-91 stores the message of the exception
wipe_file_begin_without_exists_test(kind, p, method, cb) ==
    LET r0 == [file |-> p, method |-> method, success |-> FALSE, error |-> "None",
               verified |-> "absent", ended |-> TRUE]
    IN  IF cancel_requested
        THEN /\ AfterWipeFile(kind, [r0 EXCEPT !.error = "Operation cancelled"])
             /\ UNCHANGED nistVars
        ELSE IF ~Exists(fs[p])
        THEN /\ AfterWipeFile(kind, [r0 EXCEPT !.error = "No such file or directory"])
             /\ UNCHANGED nistVars
        ELSE IF method = "clear"
        THEN /\ clear_method_enter(p, cb)
             /\ file_result' = [r0 EXCEPT !.ended = FALSE]
             /\ epc' = "wf_nist"
             /\ UNCHANGED <<result, idx>>
        ELSE IF method = "purge"
        THEN /\ purge_method_enter(p, DEFAULT_PASSES, cb)
             /\ file_result' = [r0 EXCEPT !.ended = FALSE]
             /\ epc' = "wf_nist"
             /\ UNCHANGED <<result, idx>>
        ELSE /\ AfterWipeFile(kind, [r0 EXCEPT !.error = "Unknown method"])
             /\ UNCHANGED nistVars

\* lines 43-78: wipe_file up to the call of the algorithm (or its early return)
wipe_file_begin(kind, p, method, cb) ==
    LET r0 == [file |-> p, method |-> method, success |-> FALSE, error |-> "None",
               verified |-> "absent", ended |-> TRUE]
    IN  IF ~Exists(fs[p])
        THEN /\ AfterWipeFile(kind, [r0 EXCEPT !.error = "File does not exist"])
             /\ UNCHANGED nistVars
        ELSE IF cancel_requested
        THEN /\ AfterWipeFile(kind, [r0 EXCEPT !.error = "Operation cancelled"])
             /\ UNCHANGED nistVars
        ELSE IF method = "clear"
        THEN /\ clear_method_enter(p, cb)
             /\ file_result' = [r0 EXCEPT !.ended = FALSE]
             /\ epc' = "wf_nist"
             /\ UNCHANGED <<result, idx>>
        ELSE IF method = "purge"
        THEN /\ purge_method_enter(p, DEFAULT_PASSES, cb)
             /\ file_result' = [r0 EXCEPT !.ended = FALSE]
             /\ epc' = "wf_nist"
             /\ UNCHANGED <<result, idx>>
        ELSE /\ AfterWipeFile(kind, [r0 EXCEPT !.error = "Unknown method"])
             /\ UNCHANGED nistVars

\* lines 80-98: wipe_file once the algorithm has returned; the frame and the logs
\* of the algorithm are dropped
wipe_file_finish ==
    /\ epc = "wf_nist"
    /\ npc = "ret"
    /\ npc' = "idle"
    /\ nargs' = NoArgs
    /\ nloc' = NoLoc
    /\ nret' = FALSE
    /\ io' = <<>>
    /\ rngCalls' = 0
    /\ verifyLog' = "none"
    /\ AfterWipeFile(eop.kind,
         [file_result EXCEPT
            !.success = nret,
            !.verified = IF nret
                         THEN (IF verify_wipe(fs[file_result.file]) THEN "True" ELSE "False")
                         ELSE "absent",
            !.ended = TRUE])
    /\ UNCHANGED <<fs, BLOCK_SIZE, progress, touched, dirs, cancel_requested, eop,
                   files_to_wipe, stopAt>>
    /\ UNCHANGED engineFrame

\* wipe_file as its caller enters it
wipe_file_enter(p, method, cb) ==
    /\ eop' = [NoOp EXCEPT !.kind = "file", !.method = method, !.cb = cb]
    /\ progress' = <<>>
    /\ wipe_file_begin("file", p, method, cb)
    /\ UNCHANGED <<dirs, cancel_requested, files_to_wipe, stopAt>>

\* wipe_file called by a user of the engine
wipe_file(p, method, cb) ==
    /\ epc = "idle"
    /\ wipe_file_enter(p, method, cb)
    /\ UNCHANGED engineFrame

\* wipe_selection were it to clear the cancellation flag as it starts
wipe_selection_enter_clearing_flag(file_list, method, cb) ==
    /\ eop' = [NoOp EXCEPT !.kind = "selection", !.method = method, !.cb = cb]
    /\ progress' = <<>>
    /\ files_to_wipe' = file_list
    /\ idx' = 0
    /\ result' = SelectionResult(file_list)
    /\ epc' = "sel_loop"
    /\ cancel_requested' = FALSE
    /\ UNCHANGED <<nistVars, dirs, file_result, stopAt>>

\* lines 205-219: wipe_selection up to its loop
wipe_selection_enter(file_list, method, cb) ==
    /\ eop' = [NoOp EXCEPT !.kind = "selection", !.method = method, !.cb = cb]
    /\ progress' = <<>>
    /\ files_to_wipe' = file_list
    /\ idx' = 0
    /\ result' = SelectionResult(file_list)
    /\ epc' = "sel_loop"
    /\ UNCHANGED <<nistVars, dirs, cancel_requested, file_result, stopAt>>

\* wipe_selection called by a user of the engine
wipe_selection(file_list, method, cb) ==
    /\ epc = "idle"
    /\ wipe_selection_enter(file_list, method, cb)
    /\ UNCHANGED engineFrame

\* lines 221-229 and 244-249: the head of the loop: the end of the list, the
\* cancellation check, the progress callback
wipe_selection_loop ==
    /\ epc = "sel_loop"
    /\ IF idx >= Len(files_to_wipe)
       THEN /\ result' = [result EXCEPT !.ended = TRUE]
            /\ epc' = "done"
            /\ progress' = progress
       ELSE IF cancel_requested
       THEN /\ result' = [result EXCEPT !.skipped = Len(files_to_wipe) - idx,
                                        !.ended = TRUE]
            /\ epc' = "done"
            /\ progress' = progress
       ELSE /\ progress' = IF eop.cb
                           THEN Append(progress, <<idx, Len(files_to_wipe)>>)
                           ELSE progress
            /\ epc' = "sel_wipe"
            /\ result' = result
    /\ UNCHANGED <<nistVars, dirs, cancel_requested, eop, files_to_wipe, idx,
                   file_result, stopAt>>
    /\ UNCHANGED engineFrame

\* line 232: the loop body's wipe_file(file_path, method), without a callback
wipe_selection_wipe ==
    /\ epc = "sel_wipe"
    /\ wipe_file_begin("selection", files_to_wipe[idx + 1], eop.method, FALSE)
    /\ UNCHANGED <<progress, dirs, cancel_requested, eop, files_to_wipe, stopAt>>
    /\ UNCHANGED engineFrame

\* pathlib's view of a folder argument
FolderIsDir(f) ==
    \/ f \in Folders /\ f \in dirs
    \/ f \in Paths /\ IsDir(fs[f])

Under(f, p, recursive) ==
    \/ ParentOf[p] = f
    \/ recursive /\ f = "/"

\* lines 137-146: the files rglob('*') / iterdir() give, kept in PathSeq order
FilesUnder(f, recursive) ==
    SelectSeq(SubSeq(PathSeq, 1, MaxFiles),
              LAMBDA p : Under(f, p, recursive) /\ IsFile(fs[p]))

\* lines 115-149: wipe_folder up to its loop
wipe_folder_enter(folder, method, recursive, cb) ==
    /\ eop' = [kind |-> "folder", method |-> method, cb |-> cb,
               recursive |-> recursive, folder |-> folder]
    /\ progress' = <<>>
    /\ idx' = 0
    /\ IF ~FolderIsDir(folder)
       THEN /\ result' = [FolderResult EXCEPT
                            !.errors = <<[file |-> "",
                                          error |-> "Folder does not exist or is not a directory"]>>,
                            !.ended = TRUE]
            /\ files_to_wipe' = <<>>
            /\ epc' = "done"
       ELSE /\ files_to_wipe' = FilesUnder(folder, recursive)
            /\ result' = [FolderResult EXCEPT
                            !.total_files = Len(FilesUnder(folder, recursive))]
            /\ epc' = "fold_loop"
    /\ UNCHANGED <<nistVars, dirs, cancel_requested, file_result, stopAt>>

\* wipe_folder called by a user of the engine
wipe_folder(folder, method, recursive, cb) ==
    /\ epc = "idle"
    /\ wipe_folder_enter(folder, method, recursive, cb)
    /\ UNCHANGED engineFrame

\* lines 152-160: the head of the loop
wipe_folder_loop ==
    /\ epc = "fold_loop"
    /\ IF idx >= Len(files_to_wipe)
       THEN /\ epc' = "fold_cleanup"
            /\ UNCHANGED <<result, progress>>
       ELSE IF cancel_requested
       THEN /\ result' = [result EXCEPT
                            !.errors = Append(@, [file |-> "",
                                                  error |-> "Operation cancelled by user"])]
            /\ epc' = "fold_cleanup"
            /\ progress' = progress
       ELSE /\ progress' = IF eop.cb
                           THEN Append(progress, <<idx, Len(files_to_wipe)>>)
                           ELSE progress
            /\ epc' = "fold_wipe"
            /\ result' = result
    /\ UNCHANGED <<nistVars, dirs, cancel_requested, eop, files_to_wipe, idx,
                   file_result, stopAt>>
    /\ UNCHANGED engineFrame

\* line 163: the loop body's wipe_file(file_path, method), without a callback
wipe_folder_wipe ==
    /\ epc = "fold_wipe"
    /\ wipe_file_begin("folder", files_to_wipe[idx + 1], eop.method, FALSE)
    /\ UNCHANGED <<progress, dirs, cancel_requested, eop, files_to_wipe, stopAt>>
    /\ UNCHANGED engineFrame

\* lines 260-268: _remove_empty_dirs: the file system once the empty
\* directories below the folder are removed
EmptyDirsRemovedFs(f) ==
    [p \in Paths |->
       IF Under(f, p, TRUE) /\ fs[p].kind = "dir" /\ fs[p].pw THEN Missing ELSE fs[p]]

EmptyDirsRemovedDirs(f) ==
    dirs \ {d \in Folders \ {"/"} :
              /\ ParentOf[d] = f
              /\ \A p \in Paths : ParentOf[p] = d => EmptyDirsRemovedFs(f)[p].kind = "missing"}

\* line 262: the directories below the folder that iterdir() cannot list
Unlistable(f) ==
    {p \in Paths : Under(f, p, TRUE) /\ fs[p].kind = "dir" /\ ~fs[p].r}

\* the directories below folder g that rmdir() can remove
Removable(g) ==
    {p \in Paths : ParentOf[p] = g /\ fs[p].kind = "dir" /\ fs[p].r /\ fs[p].pw}

\* lines 174-179 and 260-268: what _remove_empty_dirs leaves behind.  With every
\* directory listable it runs to its end.  The iterdir() of an unlistable
\* directory u raises out of the recursion and ends the cleanup (176-179): the
\* folders visited before the one holding u were finished, that one was left
\* after some of its directories were removed, the others were not visited;
\* the order of the visit is the order of the directory listing.
CleanupOutcomes(f) ==
    IF Unlistable(f) = {}
    THEN {<<EmptyDirsRemovedFs(f), EmptyDirsRemovedDirs(f)>>}
    ELSE UNION {
           {LET D == D0 \cup UNION {Removable(g) : g \in Done}
            IN  <<[p \in Paths |-> IF p \in D THEN Missing ELSE fs[p]],
                  dirs \ {g \in Done :
                            \A p \in Paths :
                              ParentOf[p] = g => (fs[p].kind = "missing" \/ p \in D)}>> :
              D0 \in SUBSET Removable(ParentOf[u]),
              Done \in SUBSET {g \in dirs \ {"/"} :
                                ParentOf[g] = f /\ Unlistable(g) = {}}} :
           u \in Unlistable(f)}

\* the cleanup removing the folder it was given as well, when it is left empty
wipe_folder_cleanup_with_root ==
    /\ epc = "fold_cleanup"
    /\ IF eop.recursive /\ eop.folder \in Folders
       THEN \E o \in CleanupOutcomes(eop.folder) :
              /\ fs' = o[1]
              /\ dirs' = IF \A p \in Paths :
                               Under(eop.folder, p, TRUE) => o[1][p].kind = "missing"
                         THEN o[2] \ {eop.folder} ELSE o[2]
       ELSE UNCHANGED <<fs, dirs>>
    /\ result' = [result EXCEPT !.ended = TRUE]
    /\ epc' = "done"
    /\ UNCHANGED <<BLOCK_SIZE, npc, nargs, nloc, nret, io, rngCalls, verifyLog, progress,
                   touched, cancel_requested, eop, files_to_wipe, idx, file_result, stopAt>>
    /\ UNCHANGED engineFrame

\* lines 174-190: the end of wipe_folder
wipe_folder_cleanup ==
    /\ epc = "fold_cleanup"
    /\ IF eop.recursive /\ eop.folder \in Folders
       THEN \E o \in CleanupOutcomes(eop.folder) :
              /\ fs' = o[1]
              /\ dirs' = o[2]
       ELSE UNCHANGED <<fs, dirs>>
    /\ result' = [result EXCEPT !.ended = TRUE]
    /\ epc' = "done"
    /\ UNCHANGED <<BLOCK_SIZE, npc, nargs, nloc, nret, io, rngCalls, verifyLog, progress,
                   touched, cancel_requested, eop, files_to_wipe, idx, file_result, stopAt>>
    /\ UNCHANGED engineFrame

\* emergency_stop flipping the flag instead of setting it
emergency_stop_toggle ==
    /\ cancel_requested' = ~cancel_requested
    /\ stopAt' = IF stopAt # -1 THEN stopAt
                 ELSE IF epc \in {"sel_loop", "fold_loop"} THEN idx
                 ELSE -2
    /\ UNCHANGED <<nistVars, progress, dirs, epc, eop, files_to_wipe, idx, result,
                   file_result>>
    /\ UNCHANGED engineFrame

\* lines 251-254: emergency_stop, from another thread or a signal handler.
\* stopAt remembers where the running loop stood when the flag was first set:
\* the loop index if the loop was between two files, -2 otherwise.
emergency_stop ==
    /\ cancel_requested' = TRUE
    /\ stopAt' = IF stopAt # -1 THEN stopAt
                 ELSE IF epc \in {"sel_loop", "fold_loop"} THEN idx
                 ELSE -2
    /\ UNCHANGED <<nistVars, progress, dirs, epc, eop, files_to_wipe, idx, result,
                   file_result>>
    /\ UNCHANGED engineFrame

\* lines 256-258: reset_cancel, by the owner of the engine while no wipe is running
reset_cancel ==
    /\ epc \in {"idle", "done"}
    /\ cancel_requested' = FALSE
    /\ UNCHANGED <<nistVars, progress, dirs, epc, eop, files_to_wipe, idx, result,
                   file_result, stopAt>>
    /\ UNCHANGED engineFrame

(***************************************************************************)
(* CertificateManager.  A dictionary is the sequence of its <<key, value>> *)
(* pairs in insertion order, which is what json.dump writes and json.load  *)
(* reads back.                                                             *)
(***************************************************************************)
FILE_LIMIT == 1000

HasKey(d, k) == \E i \in DOMAIN d : d[i][1] = k

Lookup(d, k) == d[CHOOSE i \in DOMAIN d : d[i][1] = k][2]

\* dict.pop(k, default) leaves the dictionary without k
Pop(d, k) == SelectSeq(d, LAMBDA pr : pr[1] # k)

SetField(d, k, v) == [i \in DOMAIN d |-> IF d[i][1] = k THEN <<k, v>> ELSE d[i]]

\* the keys of a certificate, in the order sort_keys=True puts them
KeyOrder == <<"certificate_id", "compliance", "duration", "end_time", "failed",
              "files", "method", "method_description", "operation", "path",
              "public_key", "results", "signature", "standard", "start_time",
              "success", "successful", "timestamp", "total_files", "verified">>

DictKeys == {"operation", "results", "compliance"}

SortKeys(d) ==
    LET ord == SelectSeq(KeyOrder, LAMBDA k : HasKey(d, k))
    IN  [i \in 1..Len(ord) |-> <<ord[i], Lookup(d, ord[i])>>]

\* json.dumps(data, sort_keys=True): the keys sorted at every level, lists in order
Dumps(d) ==
    LET s == SortKeys(d)
    IN  [i \in 1..Len(s) |->
           IF s[i][1] \in DictKeys THEN <<s[i][1], SortKeys(s[i][2])>>
           ELSE IF s[i][1] = "files"
           THEN <<s[i][1], [j \in 1..Len(s[i][2]) |-> SortKeys(s[i][2][j])]>>
           ELSE s[i]]

\* RSA-PSS: a signature by a private key verifies under the public key of the same
\* pair, for the signed bytes and no others
NoSig == [signer |-> "None", msg |-> <<>>]
Sign(key, bytes) == [signer |-> key, msg |-> bytes]
RsaVerify(pub, sig, bytes) == sig.signer = pub /\ sig.msg = bytes

\* bytes.hex() and bytes.fromhex()
Hex(sig) == [enc |-> "hex", raw |-> sig]
EmptyStr == [enc |-> "empty", raw |-> NoSig]
IsHex(v) == v.enc \in {"hex", "empty"}
FromHex(v) == v.raw

\* PEM encoding of the public key of a pair, and load_pem_public_key
Pem(k) == IF k = "K1" THEN "PEM-K1" ELSE "PEM-K2"
IsPem(t) == t \in {"PEM-K1", "PEM-K2"}
LoadPem(t) == IF t = "PEM-K1" THEN "K1" ELSE "K2"

\* line 8: the name datetime is the class datetime.datetime; these are the
\* attributes of it that _initialize_keys asks for and that exist
DatetimeAttrs == {"utcnow", "now"}

\* lines 29-65: _initialize_keys: the private key, then the self-signed certificate;
\* an exception on the way leaves what was not yet assigned at None
InitializeKeys(keygen_ok) ==
    IF ~keygen_ok
    THEN [private_key |-> "None", certificate |-> "None"]
    ELSE IF "timedelta" \in DatetimeAttrs
    THEN [private_key |-> "K1", certificate |-> "K1"]
    ELSE [private_key |-> "K1", certificate |-> "None"]

\* lines 242-248: _get_method_description
MethodDescription(method) ==
    CASE method = "clear" -> "NIST Clear - Single pass overwrite with zeros"
      [] method = "purge" -> "NIST Purge - Multi-pass overwrite (DoD 5220.22-M)"
      [] OTHER -> "Unknown method"

\* files without the slice
TakeAll(q, n) == q

\* files[:1000]
Take(q, n) == SubSeq(q, 1, Min(Len(q), n))

\* dict.get(k, default) on a result dictionary, kept as a record of its keys
GetOr(r, k, default) == IF k \in DOMAIN r THEN r[k] ELSE default

\* lines 98-128: the certificate data before it is signed
CertData(r) ==
    LET files == Take(GetOr(r, "files", <<>>), FILE_LIMIT)
    IN
    <<  <<"certificate_id", "ID">>,
        <<"timestamp", "now">>,
        <<"operation", <<  <<"method", GetOr(r, "method", "unknown")>>,
                           <<"start_time", GetOr(r, "start_time", "None")>>,
                           <<"end_time", GetOr(r, "end_time", "None")>>,
                           <<"duration", GetOr(r, "duration", "None")>>  >>  >>,
        <<"results", <<  <<"total_files", GetOr(r, "total_files", 0)>>,
                         <<"successful", GetOr(r, "successful", 0)>>,
                         <<"failed", GetOr(r, "failed", 0)>>  >>  >>,
        <<"compliance", <<  <<"standard", "NIST SP 800-88">>,
                            <<"method_description",
                              MethodDescription(GetOr(r, "method", "clear"))>>  >>  >>,
        <<"files", [j \in 1..Len(files) |->
                      <<  <<"path", GetOr(files[j], "file", "unknown")>>,
                          <<"success", GetOr(files[j], "success", FALSE)>>,
                          <<"verified", GetOr(files[j], "verified", FALSE)>>  >>]>>  >>

\* the keys left in insertion order
SignedBytesUnsorted(data) == data

\* lines 164-166: the bytes sign_deletion_log signs
SignedBytes(data) == Dumps(data)

\* lines 160-182: sign_deletion_log: the hex signature, or "" on any error
sign_deletion_log(data) ==
    IF private_key = "None" THEN EmptyStr
    ELSE Hex(Sign(private_key, SignedBytes(data)))

\* lines 250-260: _get_public_key_pem
get_public_key_pem ==
    IF certificate = "None" THEN "" ELSE Pem(certificate)

\* lines 130-133: the signed certificate
SignedCert(r) ==
    CertData(r) \o <<  <<"signature", sign_deletion_log(CertData(r))>>,
                       <<"public_key", get_public_key_pem>>  >>

NoFile == [exists |-> FALSE, text |-> "none", members |-> <<>>]

\* json.dump(cert_data, f, indent=2) and json.load(f)
JsonDump(d) == [exists |-> TRUE, text |-> "json", members |-> d]
IsJson(f) == f.exists /\ f.text = "json"
JsonLoad(f) == f.members

\* lines 84-148: generate_wipe_certificate; a failure to write the file is raised;
\* vcall remembers the operation result it was given
generate_wipe_certificate(r) ==
    /\ cpc = "idle"
    /\ signed_payload' = IF private_key = "None" THEN <<>> ELSE SignedBytes(CertData(r))
    /\ \E ok \in BOOLEAN :
         IF ok
         THEN /\ cert_file' = JsonDump(SignedCert(r))
              /\ gen_ret' = "output_path"
         ELSE /\ cert_file' = cert_file
              /\ gen_ret' = "raised"
    /\ cpc' = "generated"
    /\ UNCHANGED <<private_key, certificate, verify_ret, verified_payload, tampered>>
    /\ vcall' = [fn |-> "generate_wipe_certificate", operation_results |-> r]
    /\ UNCHANGED <<nistVars, progress, engineVars, vout, cli>>

\* lines 198-200 and 213-214: the bytes verify_certificate checks the signature against
VerifiedBytes(cert_data) == Dumps(Pop(Pop(cert_data, "signature"), "public_key"))

\* a file open() cannot read, a file that is not JSON, and a JSON document that is
\* not an object
Unreadable == [exists |-> TRUE, text |-> "unreadable", members |-> <<>>]
NotJson == [exists |-> TRUE, text |-> "not json", members |-> <<>>]
JsonList == [exists |-> TRUE, text |-> "json list", members |-> <<>>]

\* a signature field that is not a string of hexadecimal digits, and a public_key
\* field that is not a PEM public key
NotHex == [enc |-> "text", raw |-> NoSig]
NotPem == "PEM-garbage"

\* lines 232-234: what becomes of an exception raised in the body of
\* verify_certificate
VerifyRaised == [ret |-> "False", payload |-> <<>>]

\* the body raises and no handler catches it
VerifyCertificateUncaught(f) ==
    IF ~IsJson(f) THEN [ret |-> "raised", payload |-> <<>>]
    ELSE LET cert_data == JsonLoad(f)
             sigv == IF HasKey(cert_data, "signature")
                     THEN Lookup(cert_data, "signature") ELSE EmptyStr
             pem == IF HasKey(cert_data, "public_key")
                    THEN Lookup(cert_data, "public_key") ELSE ""
         IN  IF ~IsHex(sigv) THEN [ret |-> "raised", payload |-> <<>>]
             ELSE IF FromHex(sigv) = NoSig \/ pem = ""
             THEN [ret |-> "False", payload |-> <<>>]
             ELSE IF ~IsPem(pem) THEN [ret |-> "raised", payload |-> <<>>]
             ELSE [ret |-> IF RsaVerify(LoadPem(pem), FromHex(sigv),
                                        VerifiedBytes(cert_data))
                           THEN "True" ELSE "False",
                   payload |-> VerifiedBytes(cert_data)]

\* lines 194-234: verify_certificate: how far it gets, and what it returns.
\* open (195) raises on a missing or unreadable file, json.load (196) on a file
\* that is not JSON, pop (199) on a document that is not an object, fromhex (199)
\* on a signature that is not hex, load_pem_public_key (207) on a key that is not
\* PEM; all of them end in the handler of lines 232-234
VerifyCertificate(f) ==
    IF ~IsJson(f) THEN VerifyRaised
    ELSE LET cert_data == JsonLoad(f)
             sigv == IF HasKey(cert_data, "signature")
                     THEN Lookup(cert_data, "signature") ELSE EmptyStr
             pem == IF HasKey(cert_data, "public_key")
                    THEN Lookup(cert_data, "public_key") ELSE ""
         IN  IF ~IsHex(sigv) THEN VerifyRaised
             ELSE IF FromHex(sigv) = NoSig \/ pem = ""
             THEN [ret |-> "False", payload |-> <<>>]
             ELSE IF ~IsPem(pem) THEN VerifyRaised
             ELSE [ret |-> IF RsaVerify(LoadPem(pem), FromHex(sigv),
                                        VerifiedBytes(cert_data))
                           THEN "True" ELSE "False",
                   payload |-> VerifiedBytes(cert_data)]

verify_certificate ==
    /\ cpc = "generated"
    /\ verify_ret' = VerifyCertificate(cert_file).ret
    /\ verified_payload' = VerifyCertificate(cert_file).payload
    /\ cpc' = "verified"
    /\ UNCHANGED <<private_key, certificate, cert_file, gen_ret, signed_payload, tampered>>
    /\ UNCHANGED <<nistVars, progress, engineVars, valVars, cli>>

(***************************************************************************)
(* Validator                                                               *)
(***************************************************************************)
\* a path with a NUL byte in it
NulPath == "/home/\\x00"

\* line 39: a null byte or a control character in the path
HasInvalidChars(p) == p = NulPath

\* what the file system holds at a path: a file of Paths or a folder of Folders
Entry(p) ==
    IF p \in Paths THEN fs[p]
    ELSE IF p \in dirs THEN [kind |-> "dir", target |-> "none", size |-> 0,
                             r |-> TRUE, w |-> TRUE, pw |-> TRUE]
    ELSE Missing

\* lines 29-77: validate_path
ValidatePath(p) ==
    LET r0 == [valid |-> FALSE, exists |-> FALSE, accessible |-> FALSE,
               type |-> "None", errors |-> <<>>]
        e == Entry(p)
    IN  IF HasInvalidChars(p)
        THEN [r0 EXCEPT !.errors = <<"Path contains invalid characters">>]
        ELSE IF ~Exists(e)
        THEN [r0 EXCEPT !.errors = <<"Path does not exist">>]
        ELSE IF ~IsFile(e) /\ ~IsDir(e) /\ IsSymlink(e)
        THEN [r0 EXCEPT !.exists = TRUE, !.type = "symlink",
                        !.errors = <<"Symbolic links are not supported">>]
        ELSE IF ~IsFile(e) /\ ~IsDir(e)
        THEN [r0 EXCEPT !.exists = TRUE, !.type = "unknown",
                        !.errors = <<"Unknown path type">>]
        ELSE LET t == IF IsFile(e) THEN "file" ELSE "directory"
             IN  IF ~e.r
                 THEN [r0 EXCEPT !.exists = TRUE, !.type = t,
                                 !.errors = <<"Path is not readable">>]
                 ELSE [r0 EXCEPT !.exists = TRUE, !.type = t, !.accessible = TRUE,
                                 !.valid = TRUE]

\* lines 89-124: validate_permissions
ValidatePermissions(p) ==
    LET r0 == [can_delete |-> FALSE, readable |-> FALSE, writable |-> FALSE,
               parent_writable |-> FALSE, errors |-> <<>>]
        e == Entry(p)
    IN  IF ~Exists(e)
        THEN [r0 EXCEPT !.errors = <<"Path does not exist">>]
        ELSE [r0 EXCEPT
                !.readable = e.r,
                !.writable = e.w,
                !.parent_writable = e.pw,
                !.can_delete = e.w /\ e.pw,
                !.errors = (IF e.w THEN <<>> ELSE <<"File is not writable">>)
                           \o (IF e.pw THEN <<>>
                               ELSE <<"Parent directory is not writable">>)]

\* lines 153-183: where one entry of the list goes
SelectionClass(p, platform_handler) ==
    IF ~ValidatePath(p).valid THEN "invalid_path"
    ELSE IF platform_handler # "None" /\ is_system_file(Lower(p)) THEN "system"
    ELSE IF ~ValidatePermissions(p).can_delete THEN "invalid_permissions"
    ELSE "valid"

\* validate_selection without the continue of line 171: a system file goes on to
\* the permission test and may be listed among valid_files as well
ValidateSelectionFallThrough(file_list, platform_handler) ==
    LET class(p) == SelectionClass(p, platform_handler)
        bad == SelectSeq(file_list, LAMBDA p : class(p) \in {"invalid_path",
                                                             "invalid_permissions"})
        system_files == SelectSeq(file_list, LAMBDA p : class(p) = "system")
        valid_files == SelectSeq(file_list,
                                 LAMBDA p : \/ class(p) = "valid"
                                            \/ /\ class(p) = "system"
                                               /\ ValidatePermissions(p).can_delete)
        r0 == [valid |-> TRUE, total_files |-> Len(file_list), valid_files |-> <<>>,
               invalid_files |-> <<>>, system_files |-> <<>>, warnings |-> <<>>,
               errors |-> <<>>]
    IN  IF file_list = <<>>
        THEN [r0 EXCEPT !.valid = FALSE, !.errors = <<"No files selected">>]
        ELSE [r0 EXCEPT
                !.valid = system_files = <<>> /\ valid_files # <<>>,
                !.valid_files = valid_files,
                !.invalid_files =
                    [i \in DOMAIN bad |->
                       [path |-> bad[i],
                        reasons |-> IF class(bad[i]) = "invalid_path"
                                    THEN ValidatePath(bad[i]).errors
                                    ELSE ValidatePermissions(bad[i]).errors]],
                !.system_files = system_files,
                !.warnings = [i \in DOMAIN system_files |->
                                <<"appears to be a system file", system_files[i]>>],
                !.errors = (IF system_files # <<>>
                            THEN <<"system file(s) detected - deletion not allowed">>
                            ELSE <<>>)
                           \o (IF valid_files = <<>>
                               THEN <<"No valid files to delete">> ELSE <<>>)]

\* lines 138-201: validate_selection
ValidateSelection(file_list, platform_handler) ==
    LET class(p) == SelectionClass(p, platform_handler)
        bad == SelectSeq(file_list, LAMBDA p : class(p) \in {"invalid_path",
                                                             "invalid_permissions"})
        system_files == SelectSeq(file_list, LAMBDA p : class(p) = "system")
        valid_files == SelectSeq(file_list, LAMBDA p : class(p) = "valid")
        r0 == [valid |-> TRUE, total_files |-> Len(file_list), valid_files |-> <<>>,
               invalid_files |-> <<>>, system_files |-> <<>>, warnings |-> <<>>,
               errors |-> <<>>]
    IN  IF file_list = <<>>
        THEN [r0 EXCEPT !.valid = FALSE, !.errors = <<"No files selected">>]
        ELSE [r0 EXCEPT
                !.valid = system_files = <<>> /\ valid_files # <<>>,
                !.valid_files = valid_files,
                !.invalid_files =
                    [i \in DOMAIN bad |->
                       [path |-> bad[i],
                        reasons |-> IF class(bad[i]) = "invalid_path"
                                    THEN ValidatePath(bad[i]).errors
                                    ELSE ValidatePermissions(bad[i]).errors]],
                !.system_files = system_files,
                !.warnings = [i \in DOMAIN system_files |->
                                <<"appears to be a system file", system_files[i]>>],
                !.errors = (IF system_files # <<>>
                            THEN <<"system file(s) detected - deletion not allowed">>
                            ELSE <<>>)
                           \o (IF valid_files = <<>>
                               THEN <<"No valid files to delete">> ELSE <<>>)]

\* the three calls, by a user of the Validator
validate_path(p) ==
    /\ vcall' = [fn |-> "validate_path", path |-> p]
    /\ vout' = ValidatePath(p)
    /\ UNCHANGED <<nistVars, progress, engineVars, certVars, cli>>

validate_permissions(p) ==
    /\ vcall' = [fn |-> "validate_permissions", path |-> p]
    /\ vout' = ValidatePermissions(p)
    /\ UNCHANGED <<nistVars, progress, engineVars, certVars, cli>>

validate_selection(file_list, platform_handler) ==
    /\ vcall' = [fn |-> "validate_selection", file_list |-> file_list,
                 platform_handler |-> platform_handler]
    /\ vout' = ValidateSelection(file_list, platform_handler)
    /\ UNCHANGED <<nistVars, progress, engineVars, certVars, cli>>

(***************************************************************************)
(* WipeCLI: the --file, --folder and --list commands                       *)
(***************************************************************************)
\* the names the standard library module platform has, among those asked of it
PlatformModuleAttrs == {"system", "machine", "platform"}

\* --method: choices=['clear', 'purge']
CliMethods == {"clear", "purge"}

\* the command returns, or raises, before the engine is called
CliStops(cmd, p, outcome, validated) ==
    /\ cli' = [cmd |-> cmd, path |-> p, outcome |-> outcome, validated |-> validated]
    /\ UNCHANGED <<nistVars, progress, engineVars>>

\* the command has reached its call of the engine
CliWipes(cmd, p) ==
    cli' = [cmd |-> cmd, path |-> p, outcome |-> "wiping", validated |-> TRUE]

\* lines 110-163: _wipe_single_file up to its call of wipe_file
cli_wipe_single_file(p, method) ==
    /\ cli.cmd = "none"
    /\ epc = "idle"
    /\ IF ~ValidatePath(p).valid
       THEN CliStops("file", p, "invalid_path", TRUE)
       ELSE IF ~ValidatePermissions(p).can_delete
       THEN CliStops("file", p, "cannot_delete", TRUE)
       ELSE \E confirmed \in BOOLEAN :
              IF ~confirmed
              THEN CliStops("file", p, "declined", TRUE)
              ELSE /\ CliWipes("file", p)
                   /\ wipe_file_enter(p, method, TRUE)
    /\ UNCHANGED <<certVars, valVars>>

\* lines 183-240: _wipe_folder up to its call of wipe_folder; the import of
\* get_platform_handler from platform raises ImportError
cli_wipe_folder(folder, method, recursive) ==
    /\ cli.cmd = "none"
    /\ epc = "idle"
    /\ IF ~ValidatePath(folder).valid \/ ValidatePath(folder).type # "directory"
       THEN CliStops("folder", folder, "invalid_folder", TRUE)
       ELSE IF "get_platform_handler" \notin PlatformModuleAttrs
       THEN CliStops("folder", folder, "ImportError", TRUE)
       ELSE IF FilesUnder(folder, recursive) = <<>>
       THEN CliStops("folder", folder, "no_files", TRUE)
       ELSE \E confirmed \in BOOLEAN :
              IF ~confirmed
              THEN CliStops("folder", folder, "declined", TRUE)
              ELSE /\ CliWipes("folder", folder)
                   /\ wipe_folder_enter(folder, method, recursive, TRUE)
    /\ UNCHANGED <<certVars, valVars>>

\* lines 255-324: _wipe_list up to its call of wipe_selection; the import of
\* get_platform_handler from platform raises ImportError before validate_selection
cli_wipe_list(readable, paths, method) ==
    /\ cli.cmd = "none"
    /\ epc = "idle"
    /\ IF ~readable
       THEN CliStops("list", "list", "list_unreadable", FALSE)
       ELSE IF paths = <<>>
       THEN CliStops("list", "list", "empty_list", FALSE)
       ELSE IF "get_platform_handler" \notin PlatformModuleAttrs
       THEN CliStops("list", "list", "ImportError", FALSE)
       ELSE IF ~ValidateSelection(paths, "handler").valid
       THEN CliStops("list", "list", "validation_failed", TRUE)
       ELSE \E confirmed \in BOOLEAN :
              IF ~confirmed
              THEN CliStops("list", "list", "declined", TRUE)
              ELSE /\ CliWipes("list", "list")
                   /\ wipe_selection_enter(ValidateSelection(paths, "handler").valid_files,
                                           method, TRUE)
    /\ UNCHANGED <<certVars, valVars>>

\* lines 165-173: the result of the engine's call is shown
cli_show_result ==
    /\ cli.outcome = "wiping"
    /\ epc = "done"
    /\ cli' = [cli EXCEPT !.outcome = IF cli.cmd = "file"
                                      THEN (IF file_result.success THEN "wiped" ELSE "failed")
                                      ELSE "shown"]
    /\ UNCHANGED <<nistVars, progress, engineVars, certVars, valVars>>

\* lines 179-181: Ctrl+C while the engine runs: KeyboardInterrupt leaves the
\* engine's call where it stands, and the handler calls emergency_stop
cli_keyboard_interrupt ==
    /\ cli.outcome = "wiping"
    /\ epc \notin {"idle", "done", "aborted"}
    /\ cli' = [cli EXCEPT !.outcome = "interrupted"]
    /\ epc' = "aborted"
    /\ npc' = "idle"
    /\ cancel_requested' = TRUE
    /\ stopAt' = IF stopAt # -1 THEN stopAt ELSE -2
    /\ UNCHANGED <<fs, BLOCK_SIZE, nargs, nloc, nret, io, rngCalls, verifyLog, touched,
                   progress, dirs, eop, files_to_wipe, idx, result, file_result>>
    /\ UNCHANGED <<certVars, valVars>>

(***************************************************************************)
(* Reading the io log.                                                     *)
(***************************************************************************)
\* the write calls of a log, and the writes of one pass
Writes(log) == SelectSeq(log, LAMBDA e : e.op = "write")
WritesOf(log, k) == SelectSeq(log, LAMBDA e : e.op = "write" /\ e.pass = k)
Syncs(log) == SelectSeq(log, LAMBDA e : e.op = "sync")

RECURSIVE SumLen(_)
SumLen(w) == IF w = <<>> THEN 0 ELSE w[1].len + SumLen(Tail(w))

CeilDiv(a, b) == (a + b - 1) \div b

\* the writes w cover the bytes 0 .. S-1 once, front to back, in blocks of at most B
CoversOnce(w, S, B) ==
    /\ \A i \in DOMAIN w : /\ w[i].off = SumLen(SubSeq(w, 1, i - 1))
                           /\ w[i].len \in 0..B
    /\ SumLen(w) = S

\* a write or a sync of the log raised
IoFailed(log) == \E i \in DOMAIN log : log[i].op = "fail"

\* the passes the running method is to perform
ScheduledPasses ==
    IF nargs.method = "clear" THEN 1
    ELSE IF nargs.passes > 0 THEN nargs.passes ELSE 0

(***************************************************************************)
(* The engine under its callers: one call of wipe_file, wipe_folder or     *)
(* wipe_selection, with emergency_stop arriving at any moment.             *)
(***************************************************************************)
RegularFile(s) == [kind |-> "file", target |-> "none", size |-> s,
                   r |-> TRUE, w |-> TRUE, pw |-> TRUE]

FileEntries == {RegularFile(s) : s \in 0..MaxSize}

Methods == {"clear", "purge", "shred"}

\* the lists of at most MaxFiles paths, none of them twice
FileLists ==
    {l \in UNION {[1..n -> Paths] : n \in 0..MaxFiles} :
       \A i, j \in DOMAIN l : l[i] = l[j] => i = j}

InitIdle ==
    /\ touched = {}
    /\ npc = "idle"
    /\ nargs = NoArgs
    /\ nloc = NoLoc
    /\ nret = FALSE
    /\ io = <<>>
    /\ rngCalls = 0
    /\ verifyLog = "none"
    /\ progress = <<>>
    /\ dirs = Folders
    /\ cancel_requested = FALSE
    /\ epc = "idle"
    /\ eop = NoOp
    /\ files_to_wipe = <<>>
    /\ idx = 0
    /\ result = NoResult
    /\ file_result = NoFileResult
    /\ stopAt = -1
    /\ cert_file = NoFile
    /\ cpc = "idle"
    /\ gen_ret = "none"
    /\ verify_ret = "none"
    /\ signed_payload = <<>>
    /\ verified_payload = <<>>
    /\ tampered = "no"
    /\ vcall = [fn |-> "none"]
    /\ vout = [fn |-> "none"]
    /\ cli = [cmd |-> "none", path |-> "none", outcome |-> "none", validated |-> FALSE]

\* some of the paths are regular files of one size, the others do not exist
Init ==
    /\ InitIdle
    /\ BLOCK_SIZE \in 1..MaxBlock
    /\ \E E \in SUBSET Paths, sz \in 0..MaxSize :
         fs = [p \in Paths |-> IF p \in E THEN RegularFile(sz) ELSE Missing]
    /\ private_key = "None"
    /\ certificate = "None"

Next ==
    \/ \E p \in Paths, m \in Methods, cb \in BOOLEAN : wipe_file(p, m, cb)
    \/ \E l \in FileLists, m \in Methods : wipe_selection(l, m, TRUE)
    \/ \E f \in {"/", "/home"} \cup Paths, m \in Methods, rec \in BOOLEAN :
         wipe_folder(f, m, rec, TRUE)
    \/ wipe_selection_loop
    \/ wipe_selection_wipe
    \/ wipe_folder_loop
    \/ wipe_folder_wipe
    \/ wipe_folder_cleanup
    \/ wipe_file_finish
    \/ clear_method_write
    \/ clear_method_sync
    \/ clear_method_unlink
    \/ purge_method_loop
    \/ overwrite_pass_write
    \/ overwrite_pass_sync
    \/ purge_method_verify
    \/ purge_method_unlink
    \/ emergency_stop
    \/ reset_cancel

Spec == Init /\ [][Next]_vars

\* the fractions a and b, as percentages: a <= b
FracLeq(a, b) == a[1] * b[2] <= b[1] * a[2]

\* the running call was given a progress callback and has returned with every
\* file wiped, and emergency_stop was never called
CompletedWithCallback ==
    /\ epc = "done"
    /\ eop.cb
    /\ stopAt = -1
    /\ ~cancel_requested
    /\ IF eop.kind = "file" THEN file_result.success
       ELSE result.failed = 0 /\ result.errors = <<>>

\* C3: within one wipe_file, wipe_folder or wipe_selection call given a progress
\* callback, the values handed to the callback are non-decreasing, each lies in
\* [0, 100], and when the call completes without cancellation the last value
\* reported is 100.
C3_ProgressReaches100 ==
    /\ \A i \in DOMAIN progress : 0 <= progress[i][1] /\ progress[i][1] <= progress[i][2]
    /\ \A i, j \in DOMAIN progress : i <= j => FracLeq(progress[i], progress[j])
    /\ (CompletedWithCallback /\ progress # <<>>)
         => progress[Len(progress)][1] = progress[Len(progress)][2]

\* the running folder or selection wipe has returned, and the flag was first set
\* between two files, when stopAt files had been processed
CancelledAfter(k) ==
    /\ epc = "done"
    /\ eop.kind \in {"folder", "selection"}
    /\ result.total_files > 0
    /\ stopAt = k

\* C4: in wipe_folder and wipe_selection over n files, when the flag is set after
\* file k has been processed, files 1..k have a terminal outcome, files k+1..n are
\* counted in the result's skipped count, and skipped + successful + failed ==
\* total_files == n.
C4_CancelAccounting ==
    \A k \in 0..MaxFiles :
      CancelledAfter(k) =>
        LET n == Len(files_to_wipe)
        IN  /\ "skipped" \in result.keys
            /\ result.skipped = n - k
            /\ result.successful + result.failed = k
            /\ result.skipped + result.successful + result.failed = result.total_files
            /\ result.total_files = n

\* C11: a write, flush or fsync that fails is the last thing the method does: it
\* returns False with the file still in place, wipe_file then reports
\* success=False, and an unlink happens only after every scheduled pass has
\* written the whole file and its flush + fsync has returned.
C11_IoFailureFailsWipe ==
    /\ [](\A i \in DOMAIN io :
            /\ io[i].op = "fail"
                 => /\ i = Len(io)
                    /\ npc = "ret" /\ nret = FALSE
                    /\ fs[nargs.file_path].kind # "missing"
            /\ io[i].op = "unlink"
                 => /\ Len(Syncs(SubSeq(io, 1, i - 1))) = ScheduledPasses
                    /\ \A k \in 1..ScheduledPasses :
                         CoversOnce(WritesOf(SubSeq(io, 1, i - 1), k), io[1].len,
                                    BLOCK_SIZE))
    /\ [][(epc = "wf_nist" /\ npc = "ret" /\ IoFailed(io) /\ epc' # "wf_nist")
            => (file_result'.ended /\ ~file_result'.success)]_vars

\* the fsync of the second pass of a purge started by wipe_file has failed
C11_Witness ==
    /\ epc = "wf_nist"
    /\ IoFailed(io)
    /\ io[Len(io)].src = "sync"
    /\ io[Len(io)].pass = 2

\* C14: wipe_file on a path that does not exist returns at once a result with
\* success=False, error 'File does not exist', end_time and duration set, and
\* writes, syncs and unlinks nothing.
C14_MissingFileResult ==
    [][\A p \in Paths :
         (epc = "idle" /\ epc' # "idle" /\ eop'.kind = "file" /\ file_result'.file = p
            /\ ~Exists(fs[p]))
           => /\ epc' = "done"
              /\ ~file_result'.success
              /\ file_result'.error = "File does not exist"
              /\ file_result'.ended
              /\ fs' = fs /\ io' = <<>> /\ touched' = touched /\ npc' = "idle"]_vars

\* wipe_file has returned from a call on a missing path
C14_Witness ==
    /\ epc = "done"
    /\ eop.kind = "file"
    /\ ~Exists(fs[file_result.file])
    /\ file_result.error = "File does not exist"
    /\ ~cancel_requested

\* the entries of files whose wipe was attempted: wipe_file got past its test of
\* the cancellation flag
Attempted(fl) == {i \in DOMAIN fl : fl[i].error # "Operation cancelled"}

\* C15: a wipe_selection that has returned attempted every path once and in list
\* order when nothing was cancelled, appended one entry per attempt, counts in
\* failed exactly the attempted files that failed and in skipped exactly the
\* files not attempted because of cancellation, and has
\* len(files) = successful + failed.
C15_SelectionAccounting ==
    (epc = "done" /\ eop.kind = "selection") =>
      LET n == Len(files_to_wipe)
          fl == result.files
      IN  /\ Len(fl) <= n
          /\ \A i \in DOMAIN fl : fl[i].file = files_to_wipe[i]
          /\ stopAt = -1 => Len(fl) = n
          /\ result.failed = Cardinality({i \in Attempted(fl) : ~fl[i].success})
          /\ result.successful = Cardinality({i \in Attempted(fl) : fl[i].success})
          /\ result.skipped = n - Cardinality(Attempted(fl))
          /\ Len(fl) = result.successful + result.failed

\* C16: emergency_stop sets the flag and changes nothing else, so that a second
\* call changes nothing at all; the flag stays set while a wipe runs; and once it
\* is set no algorithm is started on a further file: only the call that was
\* running when it was set goes on writing and unlinking.
C16_StopObservedWithinOneFile ==
    /\ [][emergency_stop
            => /\ cancel_requested'
               /\ UNCHANGED <<nistVars, progress, dirs, epc, eop, files_to_wipe, idx,
                              result, file_result>>]_vars
    /\ [][(cancel_requested /\ ~cancel_requested') => epc \in {"idle", "done"}]_vars
    /\ [][cancel_requested => ~(npc = "idle" /\ npc' # "idle")]_vars
    /\ [][(touched' # touched \/ \E p \in Paths : IsFile(fs[p]) /\ fs'[p] # fs[p])
            => npc # "idle"]_vars

\* a selection of two files was stopped while the first was being overwritten:
\* the first was wiped, the second was left alone and counted as skipped
C16_Witness ==
    /\ epc = "done"
    /\ eop.kind = "selection"
    /\ stopAt = -2
    /\ cancel_requested
    /\ Len(files_to_wipe) = 2
    /\ Len(result.files) = 1
    /\ result.files[1].success
    /\ result.skipped = 1
    /\ IsFile(fs[files_to_wipe[2]])

\* C30: the cancellation flag is set only by emergency_stop and cleared only by
\* reset_cancel; a call that finds the flag set does no wiping: wipe_file of an
\* existing file returns success False with "Operation cancelled", wipe_selection
\* skips every file of its list, and wipe_folder wipes no file and records the
\* cancellation.
C30_FlagOnlyByStopAndReset ==
    /\ [][(~cancel_requested /\ cancel_requested') => emergency_stop]_vars
    /\ [][(cancel_requested /\ ~cancel_requested') => reset_cancel]_vars
    /\ [][(epc = "idle" /\ cancel_requested /\ epc' # "idle" /\ eop'.kind = "file")
            => /\ epc' = "done"
               /\ cancel_requested'
               /\ file_result'.ended
               /\ ~file_result'.success
               /\ Exists(fs[file_result'.file])
                     => file_result'.error = "Operation cancelled"
               /\ ~Exists(fs[file_result'.file])
                     => file_result'.error = "File does not exist"
               /\ UNCHANGED <<fs, io, touched>>]_vars
    /\ [][(epc = "sel_loop" /\ idx = 0 /\ cancel_requested /\ epc' # epc)
            => /\ epc' = "done"
               /\ cancel_requested'
               /\ result'.ended
               /\ result'.files = <<>>
               /\ result'.skipped = Len(files_to_wipe)
               /\ UNCHANGED <<fs, io, touched>>]_vars
    /\ [][(epc = "fold_loop" /\ idx = 0 /\ cancel_requested /\ epc' # epc)
            => /\ epc' = "fold_cleanup"
               /\ cancel_requested'
               /\ result'.successful = 0
               /\ result'.failed = 0
               /\ files_to_wipe # <<>>
                     => \E k \in 1..Len(result'.errors) :
                           result'.errors[k].error = "Operation cancelled by user"
               /\ UNCHANGED <<fs, io, touched>>]_vars

\* emergency_stop was called before wipe_selection was: both files of the list
\* are skipped and still exist, nothing was written
C30_Witness ==
    /\ epc = "done"
    /\ eop.kind = "selection"
    /\ cancel_requested
    /\ stopAt \in {-2, 0}
    /\ Len(files_to_wipe) = 2
    /\ result.files = <<>>
    /\ result.skipped = 2
    /\ touched = {}
    /\ \A k \in 1..2 : IsFile(fs[files_to_wipe[k]])

\* C21: the cancellation flag is read between the passes of a purge: with the flag
\* set, the loop of purge_method starts no further overwrite pass of the file.
C21_CancelBetweenPasses ==
    [][(cancel_requested /\ npc = "purge_loop" /\ nloc.pass_num > 1)
         => npc' # "pass_write"]_vars

\* C28: a result of wipe_file with success=False has an error that is not None,
\* and so has every entry wipe_folder appended to errors for a failed file.
C28_FailureHasReason ==
    /\ (file_result.ended /\ ~file_result.success) => file_result.error # "None"
    /\ eop.kind = "folder"
         => \A i \in DOMAIN result.errors : result.errors[i].error # "None"

\* C9: under every interleaving of emergency_stop with a running wipe_folder or
\* wipe_selection, a file that is not wiped because the flag is set is never
\* reported as failed: no per-file result or error entry 'Operation cancelled'
\* is recorded (each comes with an increment of the failed counter).
C9_CancelNeverFailed ==
    eop.kind \in {"folder", "selection"} =>
      /\ \A i \in DOMAIN result.files :
           ~(result.files[i].success = FALSE /\ result.files[i].error = "Operation cancelled")
      /\ \A i \in DOMAIN result.errors : result.errors[i].error # "Operation cancelled"

(***************************************************************************)
(* wipe_folder over a tree with directories in it: a path is missing, a    *)
(* file, an empty directory, an empty directory rmdir() is refused on, or  *)
(* a directory that cannot be listed.                                      *)
(***************************************************************************)
FolderEntries ==
    {Missing,
     RegularFile(1),
     [RegularFile(0) EXCEPT !.kind = "dir"],
     [RegularFile(0) EXCEPT !.kind = "dir", !.pw = FALSE],
     [RegularFile(0) EXCEPT !.kind = "dir", !.r = FALSE]}

InitFolder ==
    /\ InitIdle
    /\ BLOCK_SIZE = MaxBlock
    /\ fs \in [Paths -> FolderEntries]
    /\ private_key = "None"
    /\ certificate = "None"

NextFolder ==
    \/ \E f \in {"/", "/home"}, rec \in BOOLEAN : wipe_folder(f, "clear", rec, TRUE)
    \/ wipe_folder_loop
    \/ wipe_folder_wipe
    \/ wipe_folder_cleanup
    \/ wipe_file_finish
    \/ clear_method_write
    \/ clear_method_sync
    \/ clear_method_unlink
    \/ emergency_stop

SpecFolder == InitFolder /\ [][NextFolder]_vars

\* the subdirectories of a folder: the folders and the directory entries below it
SubFolders(f) == {g \in Folders \ {"/"} : ParentOf[g] = f /\ g # f}
SubDirEntries(f) == {p \in Paths : Under(f, p, TRUE) /\ fs[p].kind = "dir"}

\* folder g holds an entry
HoldsEntry(g) == \E p \in Paths : ParentOf[p] = g /\ fs[p].kind # "missing"

\* a recursive wipe_folder of an existing folder has returned
RecursiveDone ==
    /\ epc = "done"
    /\ eop.kind = "folder"
    /\ eop.recursive
    /\ eop.folder \in Folders
    /\ result.ended
    /\ result.errors = <<>> \/ result.errors[1].error
                                 # "Folder does not exist or is not a directory"

MaxCertFiles == 2

\* the per-file results wipe_file gives: 'verified' is set only after a success
FileRes(p, ok) ==
    IF ok THEN [file |-> p, method |-> "clear", success |-> TRUE, error |-> "None",
                verified |-> TRUE]
    ELSE [file |-> p, method |-> "clear", success |-> FALSE, error |-> "None"]

FileResLists ==
    UNION {[1..n -> {FileRes(p, ok) : p \in {PathSeq[1], PathSeq[2]}, ok \in BOOLEAN}] :
             n \in 0..MaxCertFiles}

Successes(fl) == Cardinality({i \in DOMAIN fl : fl[i].success})

\* the results of wipe_selection, wipe_folder and wipe_file
SelectionInput(m, fl, sk) ==
    [method |-> m, total_files |-> Len(fl) + sk, successful |-> Successes(fl),
     failed |-> Len(fl) - Successes(fl), skipped |-> sk, files |-> fl,
     start_time |-> "t0", end_time |-> "t1", duration |-> "0.5"]

FolderInput(m, ok, bad) ==
    [folder |-> "/home", method |-> m, recursive |-> TRUE, total_files |-> ok + bad,
     successful |-> ok, failed |-> bad, errors |-> <<>>,
     start_time |-> "t0", end_time |-> "t1", duration |-> "0.5"]

CertInputs ==
    {SelectionInput(m, fl, sk) : m \in {"clear", "purge"}, fl \in FileResLists, sk \in 0..1}
    \cup {FolderInput(m, ok, bad) : m \in {"clear", "purge"}, ok \in 0..1, bad \in 0..1}
    \cup {FileRes(PathSeq[1], ok) : ok \in BOOLEAN}

\* a changed value of the same JSON type
TamperValue(k, v) ==
    IF k \in {"total_files", "successful", "failed"} THEN v + 1
    ELSE IF k \in {"success", "verified"} THEN ~v
    ELSE IF v = "tampered" THEN "tampered again"
    ELSE "tampered"

\* the certificate with one field changed: a top-level field (sub = ""), a field of
\* a nested dictionary, or a field of entry i of files
TamperedCert(d, top, sub, i) ==
    IF sub = "" THEN SetField(d, top, TamperValue(top, Lookup(d, top)))
    ELSE IF top \in DictKeys
    THEN SetField(d, top,
                  SetField(Lookup(d, top), sub, TamperValue(sub, Lookup(Lookup(d, top), sub))))
    ELSE SetField(d, "files",
                  [j \in DOMAIN Lookup(d, "files") |->
                     IF j = i
                     THEN SetField(Lookup(d, "files")[j], sub,
                                   TamperValue(sub, Lookup(Lookup(d, "files")[j], sub)))
                     ELSE Lookup(d, "files")[j]])

\* the fields somebody can change: every field but signature and public_key
TamperTargets(d) ==
    {<<top, "", 0>> : top \in {"certificate_id", "timestamp"}}
    \cup {<<"operation", sub, 0>> : sub \in {"method", "start_time", "end_time", "duration"}}
    \cup {<<"results", sub, 0>> : sub \in {"total_files", "successful", "failed"}}
    \cup {<<"compliance", sub, 0>> : sub \in {"standard", "method_description"}}
    \cup {<<"files", sub, i>> : sub \in {"path", "success", "verified"},
                                i \in DOMAIN Lookup(d, "files")}

\* somebody edits one field of the certificate file
tamper_certificate ==
    /\ cpc = "generated"
    /\ tampered \in {"no", "resigned"}
    /\ IsJson(cert_file)
    /\ \E t \in TamperTargets(cert_file.members) :
         cert_file' = JsonDump(TamperedCert(cert_file.members, t[1], t[2], t[3]))
    /\ tampered' = IF tampered = "no" THEN "fields" ELSE "resigned_fields"
    /\ UNCHANGED <<private_key, certificate, cpc, gen_ret, verify_ret, signed_payload,
                   verified_payload>>
    /\ UNCHANGED <<nistVars, progress, engineVars, valVars, cli>>

\* somebody signs the fields of the file with a key pair of their own and puts
\* that pair's public key into the file
resign_certificate ==
    /\ cpc = "generated"
    /\ tampered \in {"no", "fields"}
    /\ IsJson(cert_file)
    /\ LET rest == Pop(Pop(cert_file.members, "signature"), "public_key")
       IN  cert_file' = JsonDump(rest \o <<  <<"signature", Hex(Sign("K2", Dumps(rest)))>>,
                                             <<"public_key", Pem("K2")>>  >>)
    /\ tampered' = IF tampered = "no" THEN "resigned" ELSE "forged"
    /\ UNCHANGED <<private_key, certificate, cpc, gen_ret, verify_ret, signed_payload,
                   verified_payload>>
    /\ UNCHANGED <<nistVars, progress, engineVars, valVars, cli>>

\* the ways a certificate file stops being a signed record
DamagedFiles(f) ==
    {NoFile, Unreadable, NotJson, JsonList}
    \cup (IF IsJson(f)
          THEN {JsonDump(Pop(JsonLoad(f), "signature")),
                JsonDump(SetField(JsonLoad(f), "signature", EmptyStr)),
                JsonDump(SetField(JsonLoad(f), "signature", NotHex)),
                JsonDump(Pop(JsonLoad(f), "public_key")),
                JsonDump(SetField(JsonLoad(f), "public_key", "")),
                JsonDump(SetField(JsonLoad(f), "public_key", NotPem)),
                JsonDump(SetField(JsonLoad(f), "signature",
                                  Hex(Sign(private_key, <<>>))))}
          ELSE {})

\* the certificate file is removed, made unreadable, overwritten, or loses or has
\* spoiled its signature or its public key
damage_certificate ==
    /\ cpc = "generated"
    /\ tampered = "no"
    /\ \E d \in DamagedFiles(cert_file) : cert_file' = d
    /\ tampered' = "damaged"
    /\ UNCHANGED <<private_key, certificate, cpc, gen_ret, verify_ret, signed_payload,
                   verified_payload>>
    /\ UNCHANGED <<nistVars, progress, engineVars, valVars, cli>>

InitCert ==
    /\ InitIdle
    /\ BLOCK_SIZE = MaxBlock
    /\ fs = [p \in Paths |-> Missing]
    /\ \E keygen_ok \in BOOLEAN :
         /\ private_key = InitializeKeys(keygen_ok).private_key
         /\ certificate = InitializeKeys(keygen_ok).certificate

NextCert ==
    \/ \E r \in CertInputs : generate_wipe_certificate(r)
    \/ tamper_certificate
    \/ resign_certificate
    \/ damage_certificate
    \/ verify_certificate

SpecCert == InitCert /\ [][NextCert]_vars

\* C5: for every operation result and a freshly constructed manager,
\* verify_certificate of the file generate_wipe_certificate wrote, unmodified,
\* returns True.
C5_GenerateThenVerify ==
    (cpc = "verified" /\ tampered = "no" /\ gen_ret = "output_path")
      => verify_ret = "True"

\* the fields of a certificate file other than signature and public_key
OtherFields(f) == Pop(Pop(JsonLoad(f), "signature"), "public_key")

\* C6: a certificate in which the value of a field other than signature and
\* public_key was changed is rejected by verify_certificate, and the bytes signed
\* at generation and the bytes checked at verification are both the sorted-key
\* serialization of all the fields of the file except those two.
C6_TamperDetected ==
    /\ (cpc = "verified" /\ tampered \in {"fields", "resigned_fields"})
         => verify_ret = "False"
    /\ (tampered = "no" /\ IsJson(cert_file) /\ private_key # "None")
         => /\ signed_payload = Dumps(OtherFields(cert_file))
            /\ Lookup(JsonLoad(cert_file), "signature")
                 = Hex(Sign(private_key, Dumps(OtherFields(cert_file))))
    /\ (cpc = "verified" /\ verified_payload # <<>>)
         => verified_payload = Dumps(OtherFields(cert_file))

\* a certificate with a file entry, signed, then changed in one field, was verified
C6_Witness ==
    /\ cpc = "verified"
    /\ tampered = "fields"
    /\ private_key # "None"
    /\ signed_payload # Dumps(OtherFields(cert_file))
    /\ Len(Lookup(JsonLoad(cert_file), "files")) >= 1

\* the signature field of a certificate file, as bytes, when it has one
SignatureOf(f) ==
    IF IsJson(f) /\ HasKey(JsonLoad(f), "signature")
                /\ Lookup(JsonLoad(f), "signature").enc = "hex"
    THEN Lookup(JsonLoad(f), "signature").raw ELSE NoSig

\* the public_key field of a certificate file when it has one
PublicKeyOf(f) ==
    IF IsJson(f) /\ HasKey(JsonLoad(f), "public_key")
    THEN Lookup(JsonLoad(f), "public_key") ELSE ""

\* C12: verify_certificate returns False and raises nothing for a file that is
\* missing, unreadable, not JSON or not a JSON object, for a missing, empty or
\* non-hex signature, for a missing, empty or unparsable public_key and for a
\* signature that does not match the re-serialized payload; it returns True only
\* when the signature verifies over the payload under the key of the file.
C12_VerifyRejectsWithoutRaising ==
    cpc = "verified" =>
      /\ verify_ret \in {"True", "False"}
      /\ cert_file \in {NoFile, Unreadable, NotJson, JsonList} => verify_ret = "False"
      /\ SignatureOf(cert_file) = NoSig => verify_ret = "False"
      /\ PublicKeyOf(cert_file) \notin {Pem("K1"), Pem("K2")} => verify_ret = "False"
      /\ verify_ret = "True"
           <=> /\ SignatureOf(cert_file) # NoSig
               /\ PublicKeyOf(cert_file) \in {Pem("K1"), Pem("K2")}
               /\ SignatureOf(cert_file)
                    = Sign(LoadPem(PublicKeyOf(cert_file)), Dumps(OtherFields(cert_file)))

\* a generated certificate whose signature was replaced by text that is not hex
\* has been verified
C12_Witness ==
    /\ cpc = "verified"
    /\ tampered = "damaged"
    /\ IsJson(cert_file)
    /\ HasKey(JsonLoad(cert_file), "signature")
    /\ Lookup(JsonLoad(cert_file), "signature") = NotHex

\* C13: without a signing key (private_key is None) generate_wipe_certificate
\* writes no certificate file and signals failure to its caller, so that no file
\* it wrote carries an absent or empty signature.
C13_NoKeyNoCertificate ==
    /\ (cpc = "generated" /\ tampered = "no" /\ private_key = "None")
         => (cert_file = NoFile /\ gen_ret # "output_path")
    /\ (cpc = "generated" /\ tampered = "no" /\ IsJson(cert_file))
         => /\ HasKey(JsonLoad(cert_file), "signature")
            /\ Lookup(JsonLoad(cert_file), "signature") # EmptyStr

\* C18: no operation of the certificate manager lets an exception escape:
\* generate_wipe_certificate returns to its caller also when signing or writing
\* the file failed, and verify_certificate returns True or False.
C18_NoExceptionEscapes ==
    /\ cpc \in {"generated", "verified"} => gen_ret # "raised"
    /\ cpc = "verified" => verify_ret \in {"True", "False"}

\* C27: verify_certificate returns True only for a certificate signed by the
\* private key the CertificateManager holds: a record whose fields were changed
\* and that was then signed again with another key pair, with that pair's public
\* key in public_key, is rejected.
C27_OnlyOwnKeyVerifies ==
    cpc = "verified" =>
      /\ tampered = "forged" => verify_ret = "False"
      /\ verify_ret = "True" => SignatureOf(cert_file).signer = private_key

(***************************************************************************)
(* Certificates of long operations: results of wipe_selection whose files  *)
(* list is about as long as the limit of the certificate.                  *)
(***************************************************************************)
\* the result of the j-th file of a long selection
LongFileRes(pattern, k) ==
    FileRes(PathSeq[1 + (k % 2)],
            pattern = "all" \/ (pattern = "alternate" /\ k % 2 = 1))

LongLengths == (0..MaxCertFiles) \cup ((FILE_LIMIT - 1)..(FILE_LIMIT + MaxCertFiles))

LongInputs ==
    {SelectionInput(m, [k \in 1..n |-> LongFileRes(pattern, k)], sk) :
       m \in {"clear", "purge"}, n \in LongLengths,
       pattern \in {"all", "none", "alternate"}, sk \in 0..1}

NextCertLong ==
    \/ \E r \in LongInputs : generate_wipe_certificate(r)
    \/ verify_certificate

SpecCertLong == InitCert /\ [][NextCertLong]_vars

\* C20: the files list of a certificate holds the first min(1000, n) entries of
\* the n files of the operation result, in their order, each reduced to path,
\* success and verified, and results.total_files is the count of the operation
\* result, not the length of the list.
C20_FilesTruncated ==
    (cpc \in {"generated", "verified"} /\ gen_ret = "output_path"
       /\ vcall.fn = "generate_wipe_certificate")
      => LET r == vcall.operation_results
             n == Len(r.files)
             cf == Lookup(JsonLoad(cert_file), "files")
         IN  /\ Len(cf) = Min(FILE_LIMIT, n)
             /\ \A k \in DOMAIN cf :
                  cf[k] = <<  <<"path", r.files[k].file>>,
                              <<"success", r.files[k].success>>,
                              <<"verified", GetOr(r.files[k], "verified", FALSE)>>  >>
             /\ Lookup(Lookup(JsonLoad(cert_file), "results"), "total_files")
                  = r.total_files
             /\ r.total_files >= n

\* a certificate was written for a selection of more files than the limit
C20_Witness ==
    /\ cpc = "generated"
    /\ gen_ret = "output_path"
    /\ vcall.fn = "generate_wipe_certificate"
    /\ Len(vcall.operation_results.files) = FILE_LIMIT + 1
    /\ Len(Lookup(JsonLoad(cert_file), "files")) = FILE_LIMIT

(***************************************************************************)
(* The algorithms called directly: clear_method and purge_method on a path *)
(* that may be missing, a regular file, a file that cannot be opened or    *)
(* removed, a directory, or a symbolic link.                               *)
(***************************************************************************)
\* clear_method called by a user of NISTAlgorithms
clear_method(p, cb) ==
    /\ epc = "idle"
    /\ npc \in {"idle", "ret"}
    /\ progress' = <<>>
    /\ clear_method_enter(p, cb)
    /\ UNCHANGED nistFrame

\* purge_method called by a user of NISTAlgorithms
purge_method(p, passes, cb) ==
    /\ epc = "idle"
    /\ npc \in {"idle", "ret"}
    /\ progress' = <<>>
    /\ purge_method_enter(p, passes, cb)
    /\ UNCHANGED nistFrame

\* verify_wipe called by a user of NISTAlgorithms, at any time; seen is the entry
\* of the path at the call, again tells that the call before it was the same
verify_wipe_call(p) ==
    /\ epc = "idle"
    /\ vcall' = [fn |-> "verify_wipe", path |-> p, seen |-> fs[p],
                 again |-> /\ vcall.fn = "verify_wipe"
                           /\ vcall.path = p
                           /\ vcall.seen = fs[p]]
    /\ vout' = [ret |-> verify_wipe(fs[p])]
    /\ UNCHANGED <<nistVars, progress, engineVars, certVars, cli>>

NistEntries ==
    FileEntries
    \cup {Missing,
          [RegularFile(1) EXCEPT !.w = FALSE],
          [RegularFile(1) EXCEPT !.pw = FALSE],
          [RegularFile(1) EXCEPT !.r = FALSE],
          [RegularFile(0) EXCEPT !.kind = "dir"],
          [RegularFile(MaxSize) EXCEPT !.kind = "symlink", !.target = "file"],
          [RegularFile(0) EXCEPT !.kind = "symlink", !.target = "missing",
                                 !.r = FALSE, !.w = FALSE]}

PassCounts == (-1)..MaxPasses

InitNist ==
    /\ InitIdle
    /\ BLOCK_SIZE \in 1..MaxBlock
    /\ \E e \in NistEntries :
         fs = [p \in Paths |-> IF p = PathSeq[1] THEN e ELSE Missing]
    /\ private_key = "None"
    /\ certificate = "None"

NextNist ==
    \/ \E p \in Paths, cb \in BOOLEAN : clear_method(p, cb)
    \/ \E p \in Paths, n \in PassCounts, cb \in BOOLEAN : purge_method(p, n, cb)
    \/ clear_method_write
    \/ clear_method_sync
    \/ clear_method_unlink
    \/ purge_method_loop
    \/ overwrite_pass_write
    \/ overwrite_pass_sync
    \/ purge_method_verify
    \/ purge_method_unlink
    \/ \E p \in Paths : verify_wipe_call(p)

SpecNist == InitNist /\ [][NextNist]_vars

ClearReturnedTrue == npc = "ret" /\ nargs.method = "clear" /\ nret = TRUE

PurgeReturnedTrue == npc = "ret" /\ nargs.method = "purge" /\ nret = TRUE

\* C1: when clear_method returns True on a file whose size stat() gave as S, the
\* path no longer exists and the writes issued are exactly ceil(S / BLOCK_SIZE)
\* writes, from offset 0 in increasing contiguous offsets, each of at most
\* BLOCK_SIZE bytes, all of the byte 0x00, S bytes in all.
C1_ClearWritesZeros ==
    ClearReturnedTrue =>
      LET w == Writes(io)
          S == io[1].len
      IN  /\ ~Exists(fs[nargs.file_path])
          /\ Len(w) = CeilDiv(S, BLOCK_SIZE)
          /\ CoversOnce(w, S, BLOCK_SIZE)
          /\ \A i \in DOMAIN w : /\ w[i].byte = 0
                                 /\ w[i].src = "pattern"
                                 /\ w[i].path = nargs.file_path

\* a clear that returned True after a full block followed by a shorter last block
C1_Witness ==
    /\ ClearReturnedTrue
    /\ Len(Writes(io)) >= 2
    /\ Writes(io)[Len(Writes(io))].len < BLOCK_SIZE

\* C2: when purge_method(path, passes=N) returns True, the passes performed are
\* exactly 1..N in order, each covering the full file length once; pass 1 writes
\* only 0x00, pass 2 only 0xFF, and every block of a later pass comes from its own
\* call of the random source.
C2_PurgePasses ==
    PurgeReturnedTrue =>
      LET w == Writes(io)
          S == io[1].len
          N == IF nargs.passes > 0 THEN nargs.passes ELSE 0
      IN  /\ Len(Syncs(io)) = N
          /\ \A k \in 1..N : /\ Syncs(io)[k].pass = k
                             /\ CoversOnce(WritesOf(io, k), S, BLOCK_SIZE)
          /\ \A i \in DOMAIN w : w[i].pass \in 1..N
          /\ \A i, j \in DOMAIN w : i <= j => w[i].pass <= w[j].pass
          /\ \A i \in DOMAIN w :
               /\ w[i].pass = 1 => w[i].src = "pattern" /\ w[i].byte = 0
               /\ w[i].pass = 2 => w[i].src = "pattern" /\ w[i].byte = 255
               /\ w[i].pass >= 3 => w[i].src = "random"
          /\ \A i, j \in DOMAIN w :
               (w[i].src = "random" /\ w[j].src = "random" /\ i # j)
                 => w[i].call # w[j].call

\* a purge of three passes that returned True, with two random blocks in pass 3
C2_Witness ==
    /\ PurgeReturnedTrue
    /\ nargs.passes = 3
    /\ Len(WritesOf(io, 3)) >= 2
    /\ Len(WritesOf(io, 1)) >= 2

(***************************************************************************)
(* The Validator over a file system of files with any access bits, links   *)
(* to files, to other things and to nothing, directories and devices.      *)
(***************************************************************************)
\* C19: verify_wipe(path) returns True exactly when the path does not exist and
\* changes nothing; a call repeated on an unchanged path returns what the call
\* before it returned, True after clear_method or purge_method deleted the file
\* and False on a file whose wipe failed and left it in place.
C19_VerifyWipe ==
    /\ [](vcall.fn = "verify_wipe" => (vout.ret <=> ~Exists(vcall.seen)))
    /\ []((/\ vcall.fn = "verify_wipe"
           /\ npc = "ret"
           /\ vcall.path = nargs.file_path
           /\ vcall.seen = fs[vcall.path])
            => /\ nret => vout.ret
               /\ (~nret /\ Exists(fs[vcall.path])) => ~vout.ret)
    /\ [][(vcall' # vcall /\ vcall'.fn = "verify_wipe")
            => /\ UNCHANGED <<nistVars, progress, engineVars, certVars, cli>>
               /\ vcall'.again => vout'.ret = vout.ret]_vars

\* verify_wipe was called twice after a purge that had deleted the file
C19_Witness ==
    /\ vcall.fn = "verify_wipe"
    /\ vcall.again
    /\ vout.ret
    /\ npc = "ret" /\ nret
    /\ nargs.method = "purge"
    /\ vcall.path = nargs.file_path

\* a block of a pass of a purge with a callback has just been written and reported
PassReported ==
    /\ nargs.method = "purge"
    /\ nargs.cb
    /\ npc = "pass_write"
    /\ nloc.bytes_written > 0
    /\ progress # <<>>

\* the last value reported, as a fraction of 100
LastProgress == progress[Len(progress)]

\* C23 as stated: every value reported during pass p of N lies in the half-open
\* range [(p-1)/N, p/N) * 100 and equals ((p-1) + bytes_written/file_size) / N * 100.
C23_ProgressHalfOpen ==
    PassReported =>
      LET p == nloc.pass_num
          N == nargs.passes
          v == LastProgress
      IN  /\ v = <<(p - 1) * nloc.file_size + nloc.bytes_written, N * nloc.file_size>>
          /\ (p - 1) * v[2] <= v[1] * N
          /\ v[1] * N < p * v[2]

\* C23 amended: every value reported during pass p of N equals
\* ((p-1) + bytes_written/file_size) / N * 100 and lies in the range
\* ((p-1)/N, p/N] * 100: above the lower end, and at the upper end after the last
\* block of the pass.
C23_ProgressWithinPass ==
    PassReported =>
      LET p == nloc.pass_num
          N == nargs.passes
          v == LastProgress
      IN  /\ v = <<(p - 1) * nloc.file_size + nloc.bytes_written, N * nloc.file_size>>
          /\ (p - 1) * v[2] < v[1] * N
          /\ v[1] * N <= p * v[2]
          /\ (nloc.bytes_written = nloc.file_size) => v[1] * N = p * v[2]

\* the last block of the first of several passes has been reported: the value is
\* the upper end of the range of that pass
C23_Witness ==
    /\ PassReported
    /\ nloc.pass_num = 1
    /\ nargs.passes >= 2
    /\ nloc.bytes_written = nloc.file_size
    /\ nloc.file_size > BLOCK_SIZE
    /\ LastProgress[1] * nargs.passes = LastProgress[2]

\* C26: for every value of passes, zero and negative ones too, a purge_method
\* that returned True has unlinked the file only after at least one complete
\* overwrite pass followed by flush and fsync.
C26_PurgeOverwritesBeforeUnlink ==
    (nargs.method = "purge" /\ npc = "ret" /\ nret)
      => /\ Len(Syncs(io)) >= 1
         /\ CoversOnce(WritesOf(io, 1), io[1].len, BLOCK_SIZE)

\* purge_method has returned after its passes were all done and the verification
\* was run
PurgeVerified ==
    /\ nargs.method = "purge"
    /\ npc = "ret"
    /\ verifyLog # "none"

\* C24 as stated: once all passes have succeeded the file is unlinked and True is
\* returned, whether the verification passed or failed.
C24_UnlinkedAfterPasses ==
    PurgeVerified => (nret /\ fs[nargs.file_path] = Missing)

\* C24 amended: once all passes have succeeded the verification is run and,
\* whether it passes or only logs a warning, the unlink is attempted next; True
\* is returned exactly when that unlink succeeded, and False with the file left
\* in place when it failed.
C24_VerificationOnlyWarns ==
    /\ [][(npc = "purge_verify" /\ npc' # npc)
            => /\ npc' = "purge_unlink"
               /\ verifyLog' \in {"passed", "warning"}
               /\ fs' = fs /\ io' = io /\ nret' = nret]_vars
    /\ [](PurgeVerified
            => /\ nret <=> fs[nargs.file_path] = Missing
               /\ nret <=> (io # <<>> /\ io[Len(io)].op = "unlink")
               /\ Len(Syncs(io)) = ScheduledPasses)
    /\ []((nargs.method = "purge" /\ npc = "ret" /\ verifyLog = "none") => ~nret)

\* a purge whose verification failed has unlinked the file and returned True
C24_Witness ==
    /\ PurgeVerified
    /\ verifyLog = "warning"
    /\ nret
    /\ nargs.passes >= 2
    /\ fs[nargs.file_path] = Missing

(***************************************************************************)
(* The algorithms beside another process that truncates or extends the     *)
(* file between two passes of a purge.                                     *)
(***************************************************************************)
\* another process changes the length of the file being purged, after a pass has
\* synced and before the next one opens the file
external_resize(size) ==
    /\ npc = "purge_loop"
    /\ nloc.pass_num > 1
    /\ nloc.pass_num <= nargs.passes
    /\ IsFile(fs[nargs.file_path])
    /\ size # fs[nargs.file_path].size
    /\ fs' = [fs EXCEPT ![nargs.file_path].size = size]
    /\ UNCHANGED <<BLOCK_SIZE, npc, nargs, nloc, nret, io, rngCalls, verifyLog, progress,
                   touched>>
    /\ UNCHANGED nistFrame

NextNistRace ==
    \/ NextNist
    \/ \E size \in 0..MaxSize : external_resize(size)

SpecNistRace == InitNist /\ [][NextNistRace]_vars

\* C22: a pass of a purge that has written its last block has written exactly the
\* length the file has while that pass runs, also when the length was changed
\* by another process since the pass before.
C22_PassWritesCurrentLength ==
    (npc = "pass_write" /\ nloc.bytes_written >= nloc.file_size)
      => SumLen(WritesOf(io, nloc.pass_num)) = fs[nargs.file_path].size

AccessBits == {[r |-> r, w |-> w, pw |-> pw] : r \in BOOLEAN, w \in BOOLEAN, pw \in BOOLEAN}

ValEntries ==
    {Missing,
     [RegularFile(0) EXCEPT !.kind = "dir"],
     [RegularFile(0) EXCEPT !.kind = "other"],
     [RegularFile(0) EXCEPT !.kind = "symlink", !.target = "other"],
     [RegularFile(0) EXCEPT !.kind = "symlink", !.target = "missing",
                            !.r = FALSE, !.w = FALSE]}
    \cup {[RegularFile(1) EXCEPT !.r = a.r, !.w = a.w, !.pw = a.pw] : a \in AccessBits}
    \cup {[RegularFile(1) EXCEPT !.kind = "symlink", !.target = "file",
                                 !.r = a.r, !.w = a.w, !.pw = a.pw] : a \in AccessBits}

InitValid ==
    /\ InitIdle
    /\ BLOCK_SIZE = MaxBlock
    /\ fs \in [Paths -> ValEntries]
    /\ private_key = "None"
    /\ certificate = "None"

NextValid ==
    \/ \E p \in Paths \cup {NulPath} : validate_path(p)
    \/ \E p \in Paths : validate_permissions(p)
    \/ \E l \in FileLists, h \in {"None", "handler"} : validate_selection(l, h)

SpecValid == InitValid /\ [][NextValid]_vars

\* C7: validate_path of a path that is a symbolic link returns valid=False with
\* type='symlink', also when the link's target is a readable, writable file.
C7_SymlinkRejected ==
    (vcall.fn = "validate_path" /\ vcall.path \in Paths /\ IsSymlink(fs[vcall.path]))
      => (vout.valid = FALSE /\ vout.type = "symlink")

\* C8: for a path p with is_system_file(p), validate_selection([p], handler)
\* returns valid=False with p in system_files and not in valid_files, whatever the
\* access bits of p and of its parent directory.
C8_SystemFileRejected ==
    (/\ vcall.fn = "validate_selection"
     /\ vcall.platform_handler # "None"
     /\ Len(vcall.file_list) = 1
     /\ is_system_file(vcall.file_list[1])
     /\ Exists(fs[vcall.file_list[1]]))
      => LET p == vcall.file_list[1]
         IN  /\ vout.valid = FALSE
             /\ \E i \in DOMAIN vout.system_files : vout.system_files[i] = p
             /\ \A i \in DOMAIN vout.valid_files : vout.valid_files[i] # p

\* C17: validate_selection with a platform handler, over a list in which at least
\* one path is flagged by is_system_file, returns valid=False and lists no path
\* the handler flags among valid_files.
C17_SystemFileBlocksSelection ==
    (/\ vcall.fn = "validate_selection"
     /\ vcall.platform_handler # "None"
     /\ \E i \in DOMAIN vcall.file_list : is_system_file(vcall.file_list[i]))
      => /\ vout.valid = FALSE
         /\ \A i \in DOMAIN vout.valid_files : ~is_system_file(vout.valid_files[i])

\* the Validator keeps no state between calls: one call on every file system
NextValidOnce ==
    /\ vcall.fn = "none"
    /\ NextValid

SpecValidOnce == InitValid /\ [][NextValidOnce]_vars

\* how many entries of a sequence are x
Count(q, x) == Cardinality({i \in DOMAIN q : q[i] = x})

\* C29: validate_selection of a non-empty list puts every path into exactly one
\* of valid_files, invalid_files and system_files, the three lengths add up to
\* total_files, and valid is True exactly when system_files is empty and
\* valid_files is not.
C29_SelectionPartition ==
    (vcall.fn = "validate_selection" /\ vcall.file_list # <<>>) =>
      LET invalid == [i \in DOMAIN vout.invalid_files |-> vout.invalid_files[i].path]
      IN  /\ vout.total_files = Len(vcall.file_list)
          /\ Len(vout.valid_files) + Len(invalid) + Len(vout.system_files)
               = vout.total_files
          /\ \A i \in DOMAIN vcall.file_list :
               LET p == vcall.file_list[i]
               IN  /\ Count(vout.valid_files, p) + Count(invalid, p)
                        + Count(vout.system_files, p) = Count(vcall.file_list, p)
                   /\ Cardinality({k \in 1..3 :
                                     Count(<<vout.valid_files, invalid,
                                             vout.system_files>>[k], p) > 0}) = 1
          /\ vout.valid <=> (vout.system_files = <<>> /\ vout.valid_files # <<>>)

\* a list of a system file and an ordinary file, both accessible, was validated
C29_Witness ==
    /\ vcall.fn = "validate_selection"
    /\ Len(vcall.file_list) = 2
    /\ Len(vout.system_files) = 1
    /\ Len(vout.valid_files) = 1
    /\ ~vout.valid

(***************************************************************************)
(* The command line: one wipe command over files, unwritable files and     *)
(* links to files.                                                         *)
(***************************************************************************)
CliEntries ==
    {Missing,
     RegularFile(1),
     [RegularFile(1) EXCEPT !.w = FALSE],
     [RegularFile(1) EXCEPT !.kind = "symlink", !.target = "file"]}

InitCLI ==
    /\ InitIdle
    /\ BLOCK_SIZE \in 1..MaxBlock
    /\ fs \in [Paths -> CliEntries]
    /\ private_key = "None"
    /\ certificate = "None"

NextCLI ==
    \/ \E p \in Paths, m \in CliMethods : cli_wipe_single_file(p, m)
    \/ \E f \in {"/home", "/nowhere"} \cup Paths, m \in CliMethods, rec \in BOOLEAN :
         cli_wipe_folder(f, m, rec)
    \/ \E ok \in BOOLEAN, l \in FileLists, m \in CliMethods : cli_wipe_list(ok, l, m)
    \/ cli_show_result
    \/ cli_keyboard_interrupt
    \/ wipe_file_finish
    \/ clear_method_write
    \/ clear_method_sync
    \/ clear_method_unlink
    \/ purge_method_loop
    \/ overwrite_pass_write
    \/ overwrite_pass_sync
    \/ purge_method_verify
    \/ purge_method_unlink

SpecCLI == InitCLI /\ [][NextCLI]_vars

\* C10: through the wipe commands (--file, --folder, --list) validation has run
\* before the engine is invoked, and no path that is a symbolic link or for which
\* is_system_file is true is ever written to or unlinked.
C10_CliNeverTouchesProtected ==
    /\ epc # "idle" => cli.validated
    /\ \A t \in touched : ~t.symlink /\ ~t.system

=============================================================================
